---- MODULE Spec2Model ----
(***************************************************************************)
(* A model of backend/app.py: the fixed-window rate limiter, the TTL       *)
(* metadata cache, the download admission handler, the per-job download    *)
(* loop with its engine threads and progress hooks, and the cleanup        *)
(* sweeper.                                                                *)
(*                                                                         *)
(* Time is counted in ticks of 1/TicksPerSec second since process start.   *)
(* time.time() reads Epoch + now, time.perf_counter() and the cache's      *)
(* monotonic timer read Uptime + now: the two clocks of the program have   *)
(* different origins, as they have on every platform.                      *)
(***************************************************************************)
EXTENDS Integers, Naturals, Sequences, FiniteSets, Bags, TLC

(* ------------------------------ bounds -------------------------------- *)
TicksPerSec == 2
\* last instant explored by the rate-limiter specifications (ticks)
MaxTimeRL == 250
\* last instant explored by the specification of concurrent calls (ticks)
MaxTimeRace == 121
\* requests a client may add to a bucket beyond the endpoint's threshold
MaxOver == 2
\* requests per bucket in the four-bucket specification
MaxBurst == 2
\* last instant explored by the cache specification (ticks)
MaxTimeCache == 15000
\* download jobs followed step by step by the job specification
NJobs == 1
\* requests of other clients admitted while those jobs are followed
MaxOthers == 1
\* seconds of the job specification's clock
MaxSecs == 2
\* seconds of the sweeper specifications' clock
MaxSweepSecs == 7202
\* engine calls of one job that outlast the 300 s timeout of their attempt
MaxSlow == 1
\* metadata requests followed by the metadata specification
NInfo == 2
\* retry loops followed in time, the seconds of their clock and of a slow
\* metadata call of the engine, the seconds within which two loops begin
NLoops == 2
MaxLoopSecs == 4000
EngineSecs == 5
MaxStartSecs == 3
\* seconds of the hook specification's clock, calls of a hook it follows
\* after an update, updates of a hook it follows, attempts whose hooks it
\* follows
MaxHookSecs == 2
MaxCalls == 2
MaxApplied == 2
MaxHooks == 1
\* metadata requests with a url followed by the specification of the
\* failure counter
MaxInfoCalls == 7

(* ------------------------- program constants -------------------------- *)
MAX_CONCURRENT_DOWNLOADS == 200
FILE_RETENTION_TIME == 7200
CACHE_DURATION == 3600
INFO_LIMIT == 30
DOWNLOAD_LIMIT == 10
STATUS_LIMIT == 100
DEFAULT_LIMIT == 20
WINDOW == 60
\* wall-clock reading (ticks since 1970) at process start; any value far
\* above the retention window behaves alike
Epoch == 1000000000
\* perf_counter / monotonic reading (ticks since boot) at process start
Uptime == 1000

\* the 'if attempt == ...' chain of get_enhanced_ydl_opts: six profiles
NUM_PROFILES == 6
\* os.path.getsize(full_path) > 1000
MIN_FILE_SIZE == 1000
\* 20 * 1024 * 1024 * 1024 bytes, in GiB of 1024 * 1024 * 1024 bytes
MAX_FILE_SIZE == 20
\* 'for attempt in range(6)' of extract_info_with_enhanced_fallback
INFO_ATTEMPTS == 6
\* failed_attempts[url_hash] > 5
INFO_FAILED_LIMIT == 5

Clients == {"c1", "c2"}
Endpoints == {"info", "download"}
CacheKeys == {"k1", "k2"}
CacheValues == {"v1", "v2"}

VARIABLES
    now,              \* ticks elapsed since process start
    request_limiter,  \* [client, endpoint] -> bucket {count, reset_time}
    rl_out,           \* what the latest is_rate_limited call returned
    rl_local,         \* request thread -> the locals of its is_rate_limited call
    rl_admitted,      \* history: per bucket, calls not limited since its last reset
    memory_cache,     \* key -> TTLCache entry
    cache_out,        \* what the latest get_cached_data call returned
    cache_hist,       \* history: per key, the latest set_cached_data call
    others,           \* other clients' requests: made, admitted, 'downloading'
    download_status,  \* job id -> the dict the registry holds: "none", "A", "B"
    recA,             \* the dict created at line 588 (later 'completed')
    recB,             \* the dict created at line 704 ('error')
    failed_attempts,  \* url -> failures counted
    resp,             \* request -> the handler's response
    pc,               \* request / job -> where its worker thread stands
    attempt,          \* job -> loop index of download_with_enhanced_fallback
    last_error,       \* job -> last_error of the loop
    engine,           \* job, attempt -> state of that attempt's engine call
    hook,             \* job, attempt -> the attempt's EnhancedProgressHook
    files,            \* job -> what TEMP_DIR holds under dl_{id}_
    hist,             \* history: per job, engine calls made and their results
    info,             \* metadata request -> where its handler stands, its answer
    served,           \* what the latest status / file endpoint call returned
    issued,           \* history: the download ids line 1016 has produced
    sweep_pc,         \* where the CleanupWorker thread stands
    trail,            \* the attempts of one retry loop and the options they used
    shown             \* history: job, attempt -> the updates its hook applied

limiter_vars == <<request_limiter, rl_out, rl_local, rl_admitted>>
cache_vars == <<memory_cache, cache_out, cache_hist>>
job_vars == <<others, download_status, recA, recB, failed_attempts, resp, pc,
              attempt, last_error, engine, hook, files, hist>>
side_vars == <<trail, shown>>
front_vars == <<info, served, issued, sweep_pc, side_vars>>
vars == <<now, limiter_vars, cache_vars, job_vars, front_vars>>

(* ------------------------------ clocks -------------------------------- *)
time_time == Epoch + now
perf_counter == Uptime + now
monotonic == Uptime + now

\* Python's int() of a non-negative duration held in ticks: whole seconds
IntSeconds(ticks) == ticks \div TicksPerSec

\* int(t * 1000000) of a clock reading held in ticks, written as its whole
\* seconds and the six digits that follow them
IntMicros(ticks) ==
    <<ticks \div TicksPerSec, (ticks % TicksPerSec) * (1000000 \div TicksPerSec)>>

(* --------------------------- rate limiter ----------------------------- *)
limits(endpoint) ==
    CASE endpoint = "info" -> [count |-> INFO_LIMIT, window |-> WINDOW]
      [] endpoint = "download" -> [count |-> DOWNLOAD_LIMIT, window |-> WINDOW]
      [] endpoint = "status" -> [count |-> STATUS_LIMIT, window |-> WINDOW]
      [] OTHER -> [count |-> DEFAULT_LIMIT, window |-> WINDOW]

NoBucket == [present |-> FALSE, count |-> 0, reset_time |-> 0]

\* request_limiter[limiter_key]: the defaultdict creates a missing bucket
LimiterGet(rl, key) ==
    IF rl[key].present THEN rl[key]
    ELSE [present |-> TRUE, count |-> 0,
          reset_time |-> time_time + WINDOW * TicksPerSec]

\* the bucket after the window test of lines 782-784
WindowReset(limiter, limit_config) ==
    IF time_time > limiter.reset_time
    THEN [limiter EXCEPT !.count = 0,
             !.reset_time = time_time + limit_config.window * TicksPerSec]
    ELSE limiter

\* f"{client_ip}_{endpoint}": one key per pair (an address holds no "_")
MutLimiterKey(client_ip, endpoint) == <<client_ip, "info">>

limiter_key(client_ip, endpoint) == <<client_ip, endpoint>>

\* the bucket as the call leaves it (lines 776-786)
LimiterAfter(rl, client_ip, endpoint) ==
    LET w == WindowReset(LimiterGet(rl, limiter_key(client_ip, endpoint)), limits(endpoint))
    IN  [w EXCEPT !.count = w.count + 1]

IsLimited(limiter, limit_config) == limiter.count > limit_config.count

RetryAfter(limiter, limit_config) ==
    IF IsLimited(limiter, limit_config)
    THEN IntSeconds(limiter.reset_time - time_time)
    ELSE 0

\* the return value of is_rate_limited for the bucket the call left
RateResult(rl, client_ip, endpoint) ==
    LET b == LimiterAfter(rl, client_ip, endpoint)
    IN  [called |-> TRUE, client |-> client_ip, endpoint |-> endpoint, at |-> now,
         is_limited |-> IsLimited(b, limits(endpoint)),
         retry_after |-> RetryAfter(b, limits(endpoint)),
         count |-> b.count, reset_time |-> b.reset_time]

NoCall == [called |-> FALSE, client |-> "c1", endpoint |-> "info", at |-> 0,
           is_limited |-> FALSE, retry_after |-> 0, count |-> 0, reset_time |-> 0]

\* a call of is_rate_limited that no other thread's call interleaves with
is_rate_limited(client_ip, endpoint) ==
    LET key == limiter_key(client_ip, endpoint)
        r == RateResult(request_limiter, client_ip, endpoint)
        reset == time_time > LimiterGet(request_limiter, key).reset_time
    IN  /\ request_limiter' =
              [request_limiter EXCEPT ![key] = LimiterAfter(request_limiter, client_ip, endpoint)]
        /\ rl_out' = r
        /\ rl_admitted' = [rl_admitted EXCEPT ![key] =
                              (IF reset THEN 0 ELSE @) + (IF r.is_limited THEN 0 ELSE 1)]
        /\ UNCHANGED rl_local

\* the same call in a request thread of the threaded server (line 1266),
\* statement by statement; no lock is held
Threads == {"t1", "t2"}
NoLocal == [pc |-> "idle", client |-> "c1", endpoint |-> "info", current_time |-> 0,
            count |-> 0]
LocalKey(t) == limiter_key(rl_local[t].client, rl_local[t].endpoint)

RLStep(t, at, next) ==
    /\ rl_local[t].pc = at
    /\ rl_local' = [rl_local EXCEPT ![t].pc = next]

\* lines 777-780: the bucket (created when missing) and the clock reading
RLEnter(t, client_ip, endpoint) ==
    LET key == limiter_key(client_ip, endpoint)
    IN  /\ rl_local[t].pc = "idle"
        /\ request_limiter' =
              [request_limiter EXCEPT ![key] = LimiterGet(request_limiter, key)]
        /\ rl_local' = [rl_local EXCEPT ![t] =
              [pc |-> "test", client |-> client_ip, endpoint |-> endpoint,
               current_time |-> time_time, count |-> 0]]
        /\ UNCHANGED <<rl_out, rl_admitted>>
        /\ UNCHANGED <<now, cache_vars, job_vars, front_vars>>

\* line 782
RLTest(t) ==
    /\ RLStep(t, "test",
              IF rl_local[t].current_time > request_limiter[LocalKey(t)].reset_time
              THEN "zero" ELSE "load")
    /\ UNCHANGED <<request_limiter, rl_out, rl_admitted>>
    /\ UNCHANGED <<now, cache_vars, job_vars, front_vars>>

\* line 783
RLZero(t) ==
    /\ RLStep(t, "zero", "window")
    /\ request_limiter' = [request_limiter EXCEPT ![LocalKey(t)].count = 0]
    /\ rl_admitted' = [rl_admitted EXCEPT ![LocalKey(t)] = 0]
    /\ UNCHANGED rl_out
    /\ UNCHANGED <<now, cache_vars, job_vars, front_vars>>

\* line 784
RLWindow(t) ==
    /\ RLStep(t, "window", "load")
    /\ request_limiter' = [request_limiter EXCEPT ![LocalKey(t)].reset_time =
          rl_local[t].current_time + limits(rl_local[t].endpoint).window * TicksPerSec]
    /\ UNCHANGED <<rl_out, rl_admitted>>
    /\ UNCHANGED <<now, cache_vars, job_vars, front_vars>>

\* line 786, limiter['count'] += 1: the count is read ...
RLLoad(t) ==
    /\ rl_local[t].pc = "load"
    /\ rl_local' = [rl_local EXCEPT ![t].pc = "store",
                                    ![t].count = request_limiter[LocalKey(t)].count]
    /\ UNCHANGED <<request_limiter, rl_out, rl_admitted>>
    /\ UNCHANGED <<now, cache_vars, job_vars, front_vars>>

\* ... and the count read, plus one, is stored
RLStore(t) ==
    /\ RLStep(t, "store", "decide")
    /\ request_limiter' = [request_limiter EXCEPT ![LocalKey(t)].count = rl_local[t].count + 1]
    /\ UNCHANGED <<rl_out, rl_admitted>>
    /\ UNCHANGED <<now, cache_vars, job_vars, front_vars>>

\* lines 788-791: the answer, from the bucket as it is now
RLDecide(t) ==
    LET key == LocalKey(t)
        cfg == limits(rl_local[t].endpoint)
        b == request_limiter[key]
        limited == IsLimited(b, cfg)
    IN  /\ rl_local[t].pc = "decide"
        /\ rl_local' = [rl_local EXCEPT ![t] = NoLocal]
        /\ rl_out' = [called |-> TRUE, client |-> rl_local[t].client,
                      endpoint |-> rl_local[t].endpoint, at |-> now,
                      is_limited |-> limited,
                      retry_after |-> IF limited
                                      THEN IntSeconds(b.reset_time - rl_local[t].current_time)
                                      ELSE 0,
                      count |-> b.count, reset_time |-> b.reset_time]
        /\ rl_admitted' = [rl_admitted EXCEPT ![key] = @ + (IF limited THEN 0 ELSE 1)]
        /\ UNCHANGED request_limiter
        /\ UNCHANGED <<now, cache_vars, job_vars, front_vars>>

(* ------------------------------- cache -------------------------------- *)
\* memory_cache = TTLCache(maxsize=10000, ttl=CACHE_DURATION): an entry is
\* live while the timer reads less than its expiry; with the two keys of the
\* model the size bound of 10000 is never reached.
NoEntry == [present |-> FALSE, value |-> "v1", expires |-> 0]

MutLive(entry) == entry.present /\ monotonic <= entry.expires

Live(entry) == entry.present /\ monotonic < entry.expires

\* TTLCache.__setitem__: drop what has expired, then store with a new expiry
CacheStore(cache, key, data) ==
    [k \in CacheKeys |->
        IF k = key
        THEN [present |-> TRUE, value |-> data,
              expires |-> monotonic + CACHE_DURATION * TicksPerSec]
        ELSE IF Live(cache[k]) THEN cache[k] ELSE NoEntry]

MutCacheLookup(cache, key) ==
    [called |-> TRUE, key |-> key, hit |-> FALSE, value |-> "None", at |-> now]

\* key in memory_cache, then memory_cache[key]; a miss is None
CacheLookup(cache, key) ==
    IF Live(cache[key])
    THEN [called |-> TRUE, key |-> key, hit |-> TRUE, value |-> cache[key].value, at |-> now]
    ELSE [called |-> TRUE, key |-> key, hit |-> FALSE, value |-> "None", at |-> now]

NoLookup == [called |-> FALSE, key |-> "k1", hit |-> FALSE, value |-> "None", at |-> 0]

get_cached_data(key) ==
    /\ cache_out' = CacheLookup(memory_cache, key)
    /\ UNCHANGED memory_cache

set_cached_data(key, data) ==
    /\ memory_cache' = CacheStore(memory_cache, key, data)
    /\ UNCHANGED cache_out

(* ------------------------ registry and files -------------------------- *)
Jobs == 1 .. NJobs
Attempts == 0 .. (NUM_PROFILES - 1)
Urls == {"u1"}
VALID_QUALITIES == {"best", "4k", "1080p", "720p", "480p", "audio"}
\* what a request body may carry
RequestUrls == Urls \cup {""}
RequestQualities == {"best", "ultra"}
\* what the requests of the specification of the download ids carry
IdUrls == Urls \cup {"u2"}
IdQualities == {"best", "audio"}

\* the dict of line 588; 'speed', 'eta', 'message', 'method' and the file
\* fields, which no condition of the program reads, are left out
NoRecA == [status |-> "none", progress |-> 0, start_time |-> 0, file_path |-> "None"]
\* the dict of line 704; progress -1 stands for 'no progress key'
NoRecB == [status |-> "none", progress |-> -1, timestamp |-> 0]

Min(a, b) == IF a < b THEN a ELSE b

\* download_status.get(download_id): status and progress of the dict the
\* registry holds for the job
Record(ds, ra, rb, j) ==
    CASE ds[j] = "A" -> [present |-> TRUE, status |-> ra[j].status, progress |-> ra[j].progress]
      [] ds[j] = "B" -> [present |-> TRUE, status |-> rb[j].status, progress |-> rb[j].progress]
      [] OTHER -> [present |-> FALSE, status |-> "none", progress |-> -1]

\* len([s for s in download_status.values() if s.get('status') == 'downloading'])
ActiveCount(ds, ra, rb, n_others) ==
    n_others + Cardinality({j \in Jobs : Record(ds, ra, rb, j).status = "downloading"})

\* the files of one job in TEMP_DIR: dl_{id}_{title}.{ext}, its .part file,
\* and the external command's dl_{id}_final.{ext} and .part file
FileNames == {"media", "media.part", "final", "final.part"}
NoFile == [size |-> -1, gib |-> 0, ctime |-> 0]
GoodSize == 5000
TinySize == 500
Exists(f) == f.size >= 0
IsPartial(name) == name \in {"media.part", "final.part"}

\* lines 626-634: a finished file of the job of more than 1000 bytes
Usable(fs) ==
    {n \in FileNames : ~IsPartial(n) /\ Exists(fs[n])
                     /\ (fs[n].gib > 0 \/ fs[n].size > MIN_FILE_SIZE)}

\* lines 675-679: any file named dl_{id}_final.*
FinalFiles(fs) == {n \in {"final", "final.part"} : Exists(fs[n])}

(* ----------------------------- job state ------------------------------ *)
NoServed == [endpoint |-> "none", id |-> 0, phase |-> "none", ref |-> "None", code |-> 0,
             status |-> "none", progress |-> -1, has_path |-> FALSE]
NoHook == [last_update |-> 0, ref |-> "None"]
NoHist == [inproc |-> 0, ext |-> 0, slow |-> 0, all_retryable |-> TRUE,
           unavailable |-> FALSE, swept |-> FALSE]
NoResp == [kind |-> "none", code |-> 0, retry_after |-> 0]
Running == {"prompt", "slow", "abandoned"}

JobsUnchangedBut(changed) ==
    UNCHANGED <<now, limiter_vars, cache_vars, front_vars>> /\ changed

(* --------------------- POST /api/download handler --------------------- *)
MutAtCapacity(active) == active > MAX_CONCURRENT_DOWNLOADS

\* line 997
AtCapacity(active) == active >= MAX_CONCURRENT_DOWNLOADS

\* the response of lines 973-1047 once the rate limiter has answered r
DownloadResponse(url, quality, r, active, failed) ==
    IF url = "" THEN [kind |-> "url_required", code |-> 400, retry_after |-> 0]
    ELSE IF quality \notin VALID_QUALITIES
    THEN [kind |-> "invalid_quality", code |-> 400, retry_after |-> 0]
    ELSE IF r.is_limited
    THEN [kind |-> "rate_limited", code |-> 429, retry_after |-> r.retry_after]
    ELSE IF AtCapacity(active)
    THEN [kind |-> "capacity", code |-> 429, retry_after |-> 60]
    ELSE IF failed[url] > 3
    THEN [kind |-> "failed_lockout", code |-> 400, retry_after |-> 0]
    ELSE [kind |-> "started", code |-> 200, retry_after |-> 0]

\* line 220: the xxh64 digest of the text; different texts of the model
\* are taken to have different digests
ultra_fast_hash(data) == <<"xxh64", data>>

\* line 1016: f"{int(time.time() * 1000000)}_{ultra_fast_hash(url + quality)[:8]}"
download_id(url, quality) == <<IntMicros(time_time), ultra_fast_hash(url \o quality)>>

MutReachesLimiter(kind) == TRUE

\* lines 978-986: the two validations come before the rate limiter
ReachesLimiter(kind) == kind \notin {"url_required", "invalid_quality"}

\* request j is the next one to arrive; the model indexes its record by j
\* and keeps the id that line 1016 gives it in 'issued'
start_enhanced_download(j, client_ip, url, quality) ==
    LET r == RateResult(request_limiter, client_ip, "download")
        answer == DownloadResponse(url, quality, r,
                     ActiveCount(download_status, recA, recB, others.downloading),
                     failed_attempts)
    IN  /\ pc[j] = "idle"
        /\ \A i \in Jobs : i < j => pc[i] # "idle"
        /\ IF ReachesLimiter(answer.kind)
           THEN is_rate_limited(client_ip, "download")
           ELSE UNCHANGED limiter_vars
        /\ resp' = [resp EXCEPT ![j] = answer]
        /\ pc' = [pc EXCEPT ![j] = IF answer.kind = "started" THEN "spawned" ELSE "rejected"]
        /\ issued' = IF answer.kind = "started"
                      THEN issued (+) SetToBag({download_id(url, quality)})
                      ELSE issued
        /\ UNCHANGED <<now, cache_vars, others, download_status, recA, recB,
                       failed_attempts, attempt, last_error, engine, hook, files, hist,
                       info, served, sweep_pc, side_vars>>

\* another client's request, valid and within its rate limit, for a url
\* that has not failed before: answered by the same lines 996-1001
OtherRequest(url, quality) ==
    /\ others.requests < MaxOthers
    /\ ~AtCapacity(ActiveCount(download_status, recA, recB, others.downloading))
    /\ others' = [others EXCEPT !.admitted = @ + 1, !.requests = @ + 1]
    /\ issued' = issued (+) SetToBag({download_id(url, quality)})
    /\ UNCHANGED <<now, limiter_vars, cache_vars, info, served, sweep_pc, side_vars>>
    /\ UNCHANGED <<download_status, recA, recB, failed_attempts, resp, pc,
                   attempt, last_error, engine, hook, files, hist>>

\* lines 588-607 of that request's worker: its record is 'downloading'
OtherRegisters ==
    /\ others.admitted > 0
    /\ others' = [others EXCEPT !.admitted = @ - 1, !.downloading = @ + 1]
    /\ JobsUnchangedBut(UNCHANGED <<download_status, recA, recB, failed_attempts, resp, pc,
                                    attempt, last_error, engine, hook, files, hist>>)

(* ------------------ a second job with the same id -------------------- *)
\* the worker of another request that was given the id of job j: where it
\* stands and the attempt it is in
NoTwin == [pc |-> "none", attempt |-> 0]

\* lines 973-1047: a request for the url and quality of job j that reads
\* the clock value j's request read is admitted by lines 996-1001 and is
\* given j's id by line 1016
TwinRequest(j) ==
    /\ pc[j] = "spawned"
    /\ others.twin.pc = "none"
    /\ ~AtCapacity(ActiveCount(download_status, recA, recB, others.downloading))
    /\ \E q \in RequestQualities :
          /\ CopiesIn(download_id("u1", q), issued) = 1
          /\ issued' = issued (+) SetToBag({download_id("u1", q)})
    /\ others' = [others EXCEPT !.twin = [pc |-> "spawned", attempt |-> 0]]
    /\ UNCHANGED <<now, limiter_vars, cache_vars, info, served, sweep_pc, side_vars>>
    /\ UNCHANGED <<download_status, recA, recB, failed_attempts, resp, pc,
                   attempt, last_error, engine, hook, files, hist>>

\* lines 588-595 of the twin's worker, when it gets there before job j's:
\* the registry entry of the shared id is its new dict, which job j's
\* line 588 replaces in turn
TwinCreateRecord(j) ==
    /\ pc[j] = "spawned"
    /\ others.twin.pc = "spawned"
    /\ others' = [others EXCEPT !.twin.pc = "begin"]
    /\ download_status' = [download_status EXCEPT ![j] = "A"]
    /\ recA' = [recA EXCEPT ![j] =
                  [status |-> "initializing", progress |-> 0, start_time |-> perf_counter,
                   file_path |-> "None"]]
    /\ JobsUnchangedBut(UNCHANGED <<recB, failed_attempts, resp, pc, attempt,
                                    last_error, engine, hook, files, hist>>)

\* lines 601-607 of the twin's worker: download_status[download_id] is
\* whatever dict the shared key holds; with no entry the KeyError means
\* 'continue'
TwinBeginAttempt(j) ==
    LET t == others.twin
        more == t.attempt + 1 < NUM_PROFILES
    IN  /\ t.pc = "begin"
        /\ recA' = IF download_status[j] = "A"
                   THEN [recA EXCEPT ![j].status = "downloading"] ELSE recA
        /\ recB' = IF download_status[j] = "B"
                   THEN [recB EXCEPT ![j].status = "downloading"] ELSE recB
        /\ others' = IF download_status[j] # "none"
                     THEN [others EXCEPT !.twin.pc = "running"]
                     ELSE [others EXCEPT !.twin.pc = IF more THEN "begin" ELSE "fallback",
                                         !.twin.attempt = IF more THEN @ + 1 ELSE @]
        /\ JobsUnchangedBut(UNCHANGED <<download_status, failed_attempts, resp, pc,
                                        attempt, last_error, engine, hook, files, hist>>)

\* lines 609-644 of the twin's worker: its engine call raises, 'continue'
TwinAttemptEnds(j) ==
    LET t == others.twin
        more == t.attempt + 1 < NUM_PROFILES
    IN  /\ t.pc = "running"
        /\ others' = [others EXCEPT !.twin.pc = IF more THEN "begin" ELSE "fallback",
                                    !.twin.attempt = IF more THEN @ + 1 ELSE @]
        /\ JobsUnchangedBut(UNCHANGED <<download_status, recA, recB, failed_attempts, resp,
                                        pc, attempt, last_error, engine, hook, files, hist>>)

(* ---------------- download_with_enhanced_fallback --------------------- *)
\* lines 703-708 and 1026-1028: the error dict replaces the job's record
\* and the failure is counted
Failed(j, err) ==
    /\ download_status' = [download_status EXCEPT ![j] = "B"]
    /\ recB' = [recB EXCEPT ![j] =
                  [status |-> "error", progress |-> -1, timestamp |-> time_time]]
    /\ failed_attempts' = [failed_attempts EXCEPT !["u1"] = @ + 1]
    /\ last_error' = [last_error EXCEPT ![j] = err]
    /\ pc' = [pc EXCEPT ![j] = "done"]

\* lines 687-701 and 1025: the record is marked completed; the update
\* raises KeyError when the registry no longer holds the record
Finalize(j, downloaded_file) ==
    IF download_status[j] = "A"
    THEN /\ recA' = [recA EXCEPT ![j].status = "completed", ![j].progress = 100,
                                 ![j].file_path = downloaded_file]
         /\ failed_attempts' = [failed_attempts EXCEPT !["u1"] = 0]
         /\ pc' = [pc EXCEPT ![j] = "done"]
         /\ UNCHANGED <<download_status, recB, last_error>>
    ELSE Failed(j, "KeyError") /\ UNCHANGED recA

\* 'continue', or the end of an iteration that found no file
NextAttempt(j) ==
    IF attempt[j] + 1 < NUM_PROFILES
    THEN /\ attempt' = [attempt EXCEPT ![j] = @ + 1]
         /\ pc' = [pc EXCEPT ![j] = "begin"]
    ELSE /\ pc' = [pc EXCEPT ![j] = "fallback"]
         /\ UNCHANGED attempt

\* lines 588-595
CreateRecord(j) ==
    /\ pc[j] = "spawned"
    /\ download_status' = [download_status EXCEPT ![j] = "A"]
    /\ recA' = [recA EXCEPT ![j] =
                  [status |-> "initializing", progress |-> 0, start_time |-> perf_counter,
                   file_path |-> "None"]]
    /\ pc' = [pc EXCEPT ![j] = "begin"]
    /\ JobsUnchangedBut(UNCHANGED <<others, recB, failed_attempts, resp, attempt,
                                    last_error, engine, hook, files, hist>>)

\* lines 601-607: the attempt's options with a new progress hook, then the
\* record is set to 'downloading'; a missing record raises KeyError, which
\* the loop's 'except Exception' turns into 'continue'
BeginAttempt(j) ==
    /\ pc[j] = "begin"
    /\ hook' = [hook EXCEPT ![j][attempt[j]] = NoHook]
    /\ IF download_status[j] = "A"
       THEN /\ recA' = [recA EXCEPT ![j].status = "downloading"]
            /\ pc' = [pc EXCEPT ![j] = "invoke"]
            /\ UNCHANGED <<attempt, last_error>>
       ELSE /\ last_error' = [last_error EXCEPT ![j] = "KeyError"]
            /\ NextAttempt(j)
            /\ UNCHANGED recA
    /\ JobsUnchangedBut(UNCHANGED <<others, download_status, recB, failed_attempts,
                                    resp, engine, files, hist>>)

\* lines 609-621: the delay of a later attempt is over and the engine is
\* called on the download executor; the call is prompt (it ends within the
\* attempt's 300 s) or slow (it is still running when they are over)
InvokeEngine(j, mode) ==
    /\ pc[j] = "invoke"
    /\ mode \in {"prompt", "slow"}
    /\ mode = "slow" => hist[j].slow < MaxSlow
    /\ engine' = [engine EXCEPT ![j][attempt[j]] = mode]
    /\ hist' = [hist EXCEPT ![j].inproc = @ + 1,
                            ![j].slow = IF mode = "slow" THEN @ + 1 ELSE @]
    /\ pc' = [pc EXCEPT ![j] = "wait"]
    /\ JobsUnchangedBut(UNCHANGED <<others, download_status, recA, recB, failed_attempts,
                                    resp, attempt, last_error, hook, files>>)

\* what an engine call that returns can have done
EngineOutcomes == {"ok", "nofile", "raise", "unavailable"}

\* the engine wrote the finished file dl_{id}_{title}.{ext}
MediaWritten(fs) ==
    [fs EXCEPT !["media"] = [size |-> GoodSize, gib |-> 0, ctime |-> time_time],
               !["media.part"] = NoFile]

\* the engine wrote a finished file one byte larger than MAX_FILE_SIZE
HugeWritten(fs) ==
    [fs EXCEPT !["media"] = [size |-> 1, gib |-> MAX_FILE_SIZE, ctime |-> time_time],
               !["media.part"] = NoFile]

\* the file is larger than MAX_FILE_SIZE
OverMax(f) == f.gib > MAX_FILE_SIZE \/ (f.gib = MAX_FILE_SIZE /\ f.size > 0)

SizedOutcomes == EngineOutcomes \cup {"huge"}

\* the download stopped half way and left dl_{id}_{title}.{ext}.part
PartWritten(fs, n) ==
    [fs EXCEPT ![n] = [size |-> GoodSize, gib |-> 0, ctime |-> time_time]]

\* a finished file of TinySize bytes was written
TinyWritten(fs, n) ==
    [fs EXCEPT ![n] = [size |-> TinySize, gib |-> 0, ctime |-> time_time]]

ArtifactOutcomes == SizedOutcomes \cup {"partial", "tiny"}

\* lines 620-644: the engine call of the current attempt has returned or
\* raised; a raised error of any kind means 'continue', a normal return is
\* followed by the search for the job's file
AwaitResult(j, out) ==
    LET a == attempt[j]
        fs == IF out = "ok" THEN MediaWritten(files[j])
              ELSE IF out = "huge" THEN HugeWritten(files[j])
              ELSE IF out = "partial" THEN PartWritten(files[j], "media.part")
              ELSE IF out = "tiny" THEN TinyWritten(files[j], "media")
              ELSE files[j]
    IN  /\ pc[j] = "wait"
        /\ engine[j][a] = "prompt"
        /\ out \in ArtifactOutcomes
        /\ engine' = [engine EXCEPT ![j][a] = "done"]
        /\ hook' = [hook EXCEPT ![j][a] = NoHook]
        /\ files' = [files EXCEPT ![j] = fs]
        /\ hist' = [hist EXCEPT
              ![j].all_retryable = @ /\ out \in {"nofile", "raise", "partial", "tiny"},
              ![j].unavailable = @ \/ out = "unavailable"]
        /\ IF out \in {"raise", "unavailable"}
           THEN /\ last_error' = [last_error EXCEPT ![j] = out]
                /\ NextAttempt(j)
                /\ UNCHANGED <<download_status, recA, recB, failed_attempts>>
           ELSE IF Usable(fs) # {}
           THEN (\E n \in Usable(fs) : Finalize(j, n)) /\ UNCHANGED attempt
           ELSE /\ NextAttempt(j)
                /\ UNCHANGED <<download_status, recA, recB, failed_attempts, last_error>>
        /\ JobsUnchangedBut(UNCHANGED <<others, resp>>)

\* lines 620-623 and 639-641: 300 s have passed; wait_for gives up the call,
\* whose thread keeps running, and the loop continues
AttemptTimeout(j) ==
    /\ pc[j] = "wait"
    /\ engine[j][attempt[j]] = "slow"
    /\ engine' = [engine EXCEPT ![j][attempt[j]] = "abandoned"]
    /\ last_error' = [last_error EXCEPT ![j] = "timeout"]
    /\ NextAttempt(j)
    /\ JobsUnchangedBut(UNCHANGED <<others, download_status, recA, recB, failed_attempts,
                                    resp, hook, files, hist>>)

\* an engine call given up by its attempt ends; what it raises is lost,
\* the file it wrote stays
AbandonedEnds(j, a, out) ==
    /\ engine[j][a] = "abandoned"
    /\ out \in {"ok", "nofile"}
    /\ engine' = [engine EXCEPT ![j][a] = "done"]
    /\ hook' = [hook EXCEPT ![j][a] = NoHook]
    /\ files' = [files EXCEPT ![j] = IF out = "ok" THEN MediaWritten(@) ELSE @]
    /\ hist' = [hist EXCEPT ![j].all_retryable = @ /\ out # "ok"]
    /\ JobsUnchangedBut(UNCHANGED <<others, download_status, recA, recB, failed_attempts,
                                    resp, pc, attempt, last_error>>)

(* ------------------------ EnhancedProgressHook ------------------------ *)
\* what the engine passes to a progress hook
ProgressEvents ==
    [status : {"downloading"}, downloaded : {1, 2}, total : {0, 2}]
        \cup {[status |-> "finished", downloaded |-> 2, total |-> 2]}

MutThrottled(h) == FALSE

\* line 193: less than 1.5 s since the hook's last update
Throttled(h) == 2 * (perf_counter - h.last_update) < 3 * TicksPerSec

\* line 209
ProgressOf(d) == Min(99, (d.downloaded * 100) \div d.total)

\* lines 198-199: the hook keeps the dict it first found in the registry
StatusRef(h, j) ==
    IF h.ref # "None" THEN h.ref
    ELSE IF download_status[j] = "none" THEN "None" ELSE download_status[j]

\* lines 201-217: the call gets as far as _status_ref.update
Applies(h, j, d) ==
    StatusRef(h, j) # "None" /\ d.status = "downloading" /\ d.total > 0

\* lines 196-217 of EnhancedProgressHook.__call__ of attempt a's hook,
\* called by its engine: the call that is not throttled
HookRuns(j, a, d) ==
    LET h == hook[j][a]
        ref == StatusRef(h, j)
        writes == Applies(h, j, d)
    IN  /\ engine[j][a] \in Running
        /\ d \in ProgressEvents
        /\ ~Throttled(h)
        /\ hook' = [hook EXCEPT ![j][a] = [last_update |-> perf_counter, ref |-> ref]]
        /\ recA' = IF writes /\ ref = "A"
                   THEN [recA EXCEPT ![j].status = "downloading", ![j].progress = ProgressOf(d)]
                   ELSE recA
        /\ recB' = IF writes /\ ref = "B"
                   THEN [recB EXCEPT ![j].status = "downloading", ![j].progress = ProgressOf(d)]
                   ELSE recB
        /\ UNCHANGED <<others, download_status, failed_attempts, resp, pc,
                       attempt, last_error, engine, files, hist>>

\* EnhancedProgressHook.__call__; a throttled call returns at line 194
\* and changes nothing
ProgressCallback(j, a, d) ==
    HookRuns(j, a, d) /\ JobsUnchangedBut(TRUE)

NoShown == [at |-> -1, applied |-> 0, since |-> 0, between |-> 0]

\* EnhancedProgressHook.__call__ with its calls counted: when the hook
\* last applied an update, how many it has applied, the calls since the
\* last one, and the calls between the last two
HookCall(j, a, d) ==
    LET h == hook[j][a]
        n == shown[j][a]
    IN  /\ n.since < MaxCalls /\ n.applied < MaxApplied
        /\ IF Throttled(h)
           THEN /\ engine[j][a] \in Running
                /\ d \in ProgressEvents
                /\ shown' = [shown EXCEPT ![j][a].since = @ + 1]
                /\ UNCHANGED job_vars
           ELSE /\ HookRuns(j, a, d)
                /\ shown' = [shown EXCEPT ![j][a] =
                      IF Applies(h, j, d)
                      THEN [at |-> perf_counter, applied |-> n.applied + 1,
                            since |-> 0, between |-> n.since]
                      ELSE [n EXCEPT !.since = @ + 1]]
        /\ UNCHANGED <<now, limiter_vars, cache_vars, info, served, issued, sweep_pc, trail>>

(* ----------------------- external command ----------------------------- *)
\* lines 646-672: no attempt found a file; the record's message is set
\* (KeyError when the record is gone) and yt-dlp is run as a subprocess
StartExternal(j) ==
    /\ pc[j] = "fallback"
    /\ IF download_status[j] = "A"
       THEN /\ pc' = [pc EXCEPT ![j] = "ext"]
            /\ hist' = [hist EXCEPT ![j].ext = @ + 1]
            /\ UNCHANGED <<download_status, recB, failed_attempts, last_error>>
       ELSE /\ Failed(j, "KeyError")
            /\ UNCHANGED hist
    /\ JobsUnchangedBut(UNCHANGED <<others, recA, resp, attempt, engine, hook, files>>)

\* lines 672-685, then 687-708: the subprocess has ended, with whatever
\* exit status, or was killed after 180 s; any file named dl_{id}_final.*
\* is taken as the artifact
ExternalEnds(j, out) ==
    LET fs == IF out = "ok"
              THEN [files[j] EXCEPT !["final"] = [size |-> GoodSize, gib |-> 0, ctime |-> time_time]]
              ELSE IF out = "partial" THEN PartWritten(files[j], "final.part")
              ELSE IF out = "tiny" THEN TinyWritten(files[j], "final")
              ELSE files[j]
    IN  /\ pc[j] = "ext"
        /\ out \in {"ok", "nofile", "timeout", "partial", "tiny"}
        /\ files' = [files EXCEPT ![j] = fs]
        /\ hist' = [hist EXCEPT ![j].all_retryable = @ /\ out # "ok"]
        /\ IF out # "timeout" /\ FinalFiles(fs) # {}
           THEN \E n \in FinalFiles(fs) : Finalize(j, n)
           ELSE Failed(j, last_error[j]) /\ UNCHANGED recA
        /\ JobsUnchangedBut(UNCHANGED <<others, resp, attempt, engine, hook>>)

(* ------------------------------ sweeper ------------------------------- *)
Retention == FILE_RETENTION_TIME * TicksPerSec

\* a sweep that removes one old file per cycle
MutSweptFiles(fs) ==
    LET old == {n \in FileNames : Exists(fs[n]) /\ time_time - fs[n].ctime > Retention}
    IN  IF old = {} THEN fs
        ELSE [fs EXCEPT ![CHOOSE n \in old : TRUE] = NoFile]

\* lines 717-730: files created more than FILE_RETENTION_TIME ago go
SweptFiles(fs) ==
    [n \in FileNames |->
        IF Exists(fs[n]) /\ time_time - fs[n].ctime > Retention THEN NoFile ELSE fs[n]]

\* lines 735-739: a record is expired when it has a 'start_time' and
\* time.time() exceeds it by more than FILE_RETENTION_TIME; start_time is
\* a perf_counter reading (line 591), the error dict has none
ExpiredIn(ds, j) ==
    ds[j] = "A" /\ time_time - recA[j].start_time > Retention

Expired(j) == ExpiredIn(download_status, j)

\* the other jobs' records were created before now on the same clock
OthersExpired == time_time - Uptime > Retention

\* TEMP_DIR, the registry and the other jobs' records as one run of
\* lines 714-743 leaves them
FilesAfterSweep(fs) == [j \in Jobs |-> SweptFiles(fs[j])]
RegistryAfterSweep(ds) == [j \in Jobs |-> IF ExpiredIn(ds, j) THEN "none" ELSE ds[j]]
OthersAfterSweep(o) == IF OthersExpired THEN [o EXCEPT !.downloading = 0] ELSE o

\* lines 714-730, the first loop of a sweep: the old files are removed
CleanupFiles ==
    /\ sweep_pc = "files"
    /\ sweep_pc' = "records"
    /\ files' = FilesAfterSweep(files)
    /\ UNCHANGED <<now, limiter_vars, cache_vars, info, served, issued, side_vars>>
    /\ UNCHANGED <<others, download_status, recA, recB, failed_attempts, resp, pc,
                   attempt, last_error, engine, hook, hist>>

\* lines 733-743, the second loop: the expired records are removed;
\* active_downloads, which nothing reads, is left out. The thread then
\* sleeps and sweeps again (lines 756-759)
CleanupRecords ==
    /\ sweep_pc = "records"
    /\ sweep_pc' = "files"
    /\ download_status' = RegistryAfterSweep(download_status)
    /\ others' = OthersAfterSweep(others)
    /\ hist' = [j \in Jobs |->
                  [hist[j] EXCEPT !.swept = @ \/ (Expired(j) /\ pc[j] # "done")]]
    /\ UNCHANGED <<now, limiter_vars, cache_vars, info, served, issued, side_vars>>
    /\ UNCHANGED <<recA, recB, failed_attempts, resp, pc, attempt, last_error,
                   engine, hook, files>>

\* the CleanupWorker thread runs beside the workers and the handlers:
\* their steps may fall between the two loops of a sweep
cleanup_old_files == CleanupFiles \/ CleanupRecords

\* the job specification's clock moves by one throttle interval of the
\* progress hook (1.5 s, rounded up to whole ticks)
HookTicks == (3 * TicksPerSec + 1) \div 2

\* the hook specification's clock moves by one tick
TickOne ==
    /\ now + 1 <= MaxHookSecs * TicksPerSec
    /\ now' = now + 1
    /\ UNCHANGED <<limiter_vars, cache_vars, job_vars, front_vars>>

Tick ==
    /\ now + HookTicks <= MaxSecs * TicksPerSec
    /\ now' = now + HookTicks
    /\ UNCHANGED <<limiter_vars, cache_vars, job_vars, front_vars>>

\* the sweeper specifications' clock moves to the instants at which a
\* file or an error record becomes older than FILE_RETENTION_TIME
InstantsSweep ==
    { files[p[1]][p[2]].ctime - Epoch + Retention + d :
        p \in {x \in Jobs \X FileNames : Exists(files[x[1]][x[2]])}, d \in {0, 1} }
    \cup { recB[j].timestamp - Epoch + Retention + d :
             j \in {x \in Jobs : download_status[x] = "B"}, d \in {0, 1} }

Age ==
    /\ \E t \in InstantsSweep : t > now /\ t <= MaxSweepSecs * TicksPerSec /\ now' = t
    /\ UNCHANGED <<limiter_vars, cache_vars, job_vars, front_vars>>

(* ----------------- GET /api/status and GET /api/file ------------------ *)
\* the dict the call holds a reference to
HeldDict(ref, j) ==
    IF ref = "A" THEN recA[j] ELSE recB[j]

\* the dict has a 'file_path' key
HasPath(ref, j) == ref = "A" /\ recA[j].file_path # "None"

MutSnapshotPath(ref, j) == HasPath(ref, j)

\* line 1074, status.pop('file_path', None): the copy has no such key
SnapshotPath(ref, j) == FALSE

ServeUnchangedBut(changed) ==
    UNCHANGED <<now, limiter_vars, cache_vars, job_vars, info, issued, sweep_pc, side_vars>> /\ changed

Respond(endpoint, id, code) ==
    [NoServed EXCEPT !.endpoint = endpoint, !.id = id, !.phase = "done", !.code = code]

\* lines 1059-1060 and 1091-1096: 'download_id not in download_status'
Lookup(endpoint, id) ==
    /\ served.phase \in {"none", "done"}
    /\ served' = IF download_status[id] = "none"
                 THEN Respond(endpoint, id, 404)
                 ELSE [NoServed EXCEPT !.endpoint = endpoint, !.id = id, !.phase = "found"]
    /\ ServeUnchangedBut(TRUE)

\* lines 1062-1086: the copy of the record, without 'file_path'; the
\* subscript raises KeyError when the record was removed since line 1059
get_enhanced_status ==
    LET id == served.id
        ref == download_status[id]
    IN  /\ served.endpoint = "status" /\ served.phase = "found"
        /\ served' = IF ref = "none" THEN Respond("status", id, 500)
                     ELSE [Respond("status", id, 200) EXCEPT
                              !.ref = ref,
                              !.status = HeldDict(ref, id).status,
                              !.progress = HeldDict(ref, id).progress,
                              !.has_path = SnapshotPath(ref, id)]
        /\ ServeUnchangedBut(TRUE)

\* line 1098: 'status = download_status[download_id]'
FileRead ==
    LET id == served.id
        ref == download_status[id]
    IN  /\ served.endpoint = "file" /\ served.phase = "found"
        /\ served' = IF ref = "none" THEN Respond("file", id, 500)
                     ELSE [served EXCEPT !.phase = "held", !.ref = ref]
        /\ ServeUnchangedBut(TRUE)

\* the file the dict names exists
Backed(d, fs) == d.file_path # "None" /\ Exists(fs[d.file_path])

MutServable(d, fs) == d.status = "completed"

\* lines 1099-1114: the two conditions under which the file is sent
Servable(d, fs) == d.status = "completed" /\ Backed(d, fs)

\* lines 1099-1114
FileDecide ==
    LET id == served.id
        d == IF served.ref = "A" THEN recA[id]
             ELSE [status |-> recB[id].status, file_path |-> "None"]
    IN  /\ served.endpoint = "file" /\ served.phase = "held"
        /\ served' = IF d.status # "completed" THEN Respond("file", id, 400)
                     ELSE IF ~Servable(d, files[id]) THEN Respond("file", id, 404)
                     ELSE [served EXCEPT !.phase = "send", !.status = d.status]
        /\ ServeUnchangedBut(TRUE)

\* lines 1116-1134: send_file, which raises when the file is gone
download_enhanced_file ==
    LET id == served.id
    IN  /\ served.endpoint = "file" /\ served.phase = "send"
        /\ served' = [served EXCEPT !.phase = "done",
                         !.code = IF Exists(files[id][recA[id].file_path]) THEN 200 ELSE 500]
        /\ ServeUnchangedBut(TRUE)

(* --------------------------- POST /api/info --------------------------- *)
InfoReqs == 1 .. NInfo

\* f"info_{ultra_fast_hash(url)}": one cache key per url
info_key(url) == IF url = "u1" THEN "k1" ELSE "k2"

\* what one engine call of the metadata path yields: the info of the
\* url, None (ignoreerrors), or an error whose text the handler classifies
InfoErrors == {"bot", "timeout", "unavailable", "other"}
InfoOutcomes == CacheValues \cup {"None"} \cup InfoErrors

NoAnswer == [kind |-> "none", code |-> 0, data |-> "None", from_cache |-> FALSE]
NoInfo == [pc |-> "idle", url |-> "", attempt |-> 0, calls |-> 0,
           last_error |-> "None", answer |-> NoAnswer,
           loaded |-> 0]

\* line 556: 'if info:'
Truthy(result) == result \in CacheValues

\* lines 557-566: the processed dict stands for the info it was made
\* from; 'extraction_method', which nothing reads, is left out
Processed(result) == result

Success(data, cached) ==
    [kind |-> "success", code |-> 200, data |-> data, from_cache |-> cached]

\* lines 928-969: the answer chosen from the text of the error
ErrorAnswer(msg) ==
    CASE msg = "bot" -> [kind |-> "blocked", code |-> 429, data |-> "None", from_cache |-> FALSE]
      [] msg = "timeout" -> [kind |-> "timeout", code |-> 408, data |-> "None", from_cache |-> FALSE]
      [] msg = "unavailable" ->
            [kind |-> "unavailable", code |-> 404, data |-> "None", from_cache |-> FALSE]
      [] OTHER -> [kind |-> "failed", code |-> 400, data |-> "None", from_cache |-> FALSE]

Rejected(kind, code) == [kind |-> kind, code |-> code, data |-> "None", from_cache |-> FALSE]

InfoUnchangedBut(changed) ==
    /\ UNCHANGED <<now, others, download_status, recA, recB, resp, pc, attempt,
                   last_error, engine, hook, files, hist, served, issued, sweep_pc, side_vars>>
    /\ changed

\* lines 883-916 with lines 451-457: request r is the next to arrive; it
\* is rejected, answered from the cache, or starts the extraction loop
get_enhanced_info(r, client_ip, url) ==
    LET limited == RateResult(request_limiter, client_ip, "info").is_limited
        cached == CacheLookup(memory_cache, info_key(url))
        rejected == url = "" \/ limited \/ failed_attempts[url] > INFO_FAILED_LIMIT
        answer == IF url = "" THEN Rejected("url_required", 400)
                  ELSE IF limited THEN Rejected("rate_limited", 429)
                  ELSE IF failed_attempts[url] > INFO_FAILED_LIMIT
                  THEN Rejected("failed_lockout", 400)
                  ELSE IF cached.hit THEN Success(cached.value, TRUE)
                  ELSE NoAnswer
    IN  /\ info[r].pc = "idle"
        /\ \A i \in InfoReqs : i < r => info[i].pc # "idle"
        /\ IF url = "" THEN UNCHANGED limiter_vars ELSE is_rate_limited(client_ip, "info")
        /\ IF rejected THEN UNCHANGED <<memory_cache, cache_out>>
           ELSE get_cached_data(info_key(url))
        /\ failed_attempts' = IF ~rejected /\ cached.hit
                              THEN [failed_attempts EXCEPT ![url] = 0]
                              ELSE failed_attempts
        /\ info' = [info EXCEPT ![r] =
              [@ EXCEPT !.url = url, !.answer = answer,
                        !.pc = IF answer.kind = "none" THEN "extract" ELSE "answered"]]
        /\ InfoUnchangedBut(UNCHANGED cache_hist)

\* lines 462-580 and 913-926: the engine call of the current attempt
\* has ended; a truthy info is processed, cached and returned, anything
\* else leads to the next attempt, and after the last one to the error
InfoEngineReturns(r, out) ==
    LET q == info[r]
        err == IF out \in InfoErrors THEN out ELSE q.last_error
        last == q.attempt + 1 >= INFO_ATTEMPTS
    IN  /\ q.pc = "extract"
        /\ out \in InfoOutcomes
        /\ IF Truthy(out)
           THEN /\ set_cached_data(info_key(q.url), Processed(out))
                /\ cache_hist' = [cache_hist EXCEPT ![info_key(q.url)] =
                                    [set |-> TRUE, at |-> now, value |-> Processed(out)]]
                /\ failed_attempts' = [failed_attempts EXCEPT ![q.url] = 0]
                /\ info' = [info EXCEPT ![r] =
                      [@ EXCEPT !.calls = @ + 1, !.pc = "answered",
                                !.answer = Success(Processed(out), FALSE)]]
           ELSE /\ UNCHANGED cache_vars
                /\ failed_attempts' = IF last THEN [failed_attempts EXCEPT ![q.url] = @ + 1]
                                      ELSE failed_attempts
                /\ info' = [info EXCEPT ![r] =
                      [@ EXCEPT !.calls = @ + 1, !.last_error = err,
                                !.attempt = IF last THEN @ ELSE @ + 1,
                                !.pc = IF last THEN "answered" ELSE "extract",
                                !.answer = IF last THEN ErrorAnswer(err) ELSE NoAnswer]]
        /\ InfoUnchangedBut(UNCHANGED limiter_vars)

\* lines 913-915 and 928-969: 60 s after the extraction began wait_for
\* cancels it; str(TimeoutError()) is the empty text
InfoTimeout(r) ==
    /\ info[r].pc = "extract"
    /\ failed_attempts' = [failed_attempts EXCEPT ![info[r].url] = @ + 1]
    /\ info' = [info EXCEPT ![r] = [@ EXCEPT !.pc = "answered", !.answer = ErrorAnswer("")]]
    /\ InfoUnchangedBut(UNCHANGED <<limiter_vars, cache_vars>>)

\* lines 928-934 when the thread is switched within the statement of line
\* 934: the extraction raised (here the TimeoutError of wait_for) and the
\* handler has evaluated failed_attempts.get(url_hash, 0)
InfoExceptLoad(r) ==
    /\ info[r].pc = "extract"
    /\ info' = [info EXCEPT ![r] = [@ EXCEPT !.pc = "except",
                                              !.loaded = failed_attempts[info[r].url]]]
    /\ UNCHANGED failed_attempts
    /\ InfoUnchangedBut(UNCHANGED <<limiter_vars, cache_vars>>)

\* lines 934-969: the handler stores the value it loaded, plus one, and
\* answers
InfoExceptStore(r) ==
    /\ info[r].pc = "except"
    /\ failed_attempts' = [failed_attempts EXCEPT ![info[r].url] = info[r].loaded + 1]
    /\ info' = [info EXCEPT ![r] = [@ EXCEPT !.pc = "answered", !.answer = ErrorAnswer("")]]
    /\ InfoUnchangedBut(UNCHANGED <<limiter_vars, cache_vars>>)

\* line 162, maxsize=10000: other clients' extractions insert 10000
\* entries for other urls, and TTLCache evicts every entry older than them
OthersFillCache ==
    /\ \E k \in CacheKeys : memory_cache[k].present
    /\ memory_cache' = [k \in CacheKeys |-> NoEntry]
    /\ UNCHANGED <<cache_out, cache_hist, limiter_vars, failed_attempts, info>>
    /\ InfoUnchangedBut(TRUE)

(* -------------------- the retry loops in time ------------------------- *)
\* the two retry loops, extract_info_with_enhanced_fallback under the 60 s
\* wait_for of get_enhanced_info and download_with_enhanced_fallback,
\* with the options each attempt uses and the time each step takes
Loops == 1 .. NLoops

\* the user_agent of the four YOUTUBE_CLIENTS
UA_ANDROID == "com.google.android.youtube/19.29.37"
UA_IOS == "com.google.ios.youtube/19.29.1"
UA_TV == "SMART-TV Tizen 6.0"
UA_MWEB == "Android 14 SM-G998B Chrome/120 Mobile"

\* eleven texts, three of them also a client's user_agent
REALISTIC_USER_AGENTS ==
    {"Windows Chrome/120", "Macintosh Chrome/120", "X11 Chrome/120",
     "iPhone Safari/604.1", "iPad Safari/604.1", UA_MWEB,
     "Windows Firefox/120", "Macintosh Firefox/120", "Windows Edg/120",
     UA_IOS, UA_ANDROID}

\* what an attempt shows of itself: extractor_args player_client and the
\* User-Agent header
Identity(clients, ua) == [player_client |-> clients, user_agent |-> ua]
NoIdentity == Identity(<<>>, "None")
\* random.choice(REALISTIC_USER_AGENTS), followed for the three texts that
\* are also a client's and for one that is not
DrawnAgents ==
    {ua \in REALISTIC_USER_AGENTS :
        ua \in {UA_ANDROID, UA_IOS, UA_MWEB, "Windows Chrome/120"}}
AnyAgent(clients) == {Identity(clients, ua) : ua \in DrawnAgents}

\* the identities get_enhanced_ydl_opts can give an attempt
get_enhanced_ydl_opts(k) ==
    CASE k = 0 -> {Identity(<<"android">>, UA_ANDROID), Identity(<<"ios">>, UA_IOS)}
      [] k = 1 -> {Identity(<<"tv_embedded">>, UA_TV)}
      [] k = 2 -> AnyAgent(<<"android", "ios", "tv_embedded">>)
      [] k = 3 -> AnyAgent(<<"mweb", "android">>)
      [] k = 4 -> AnyAgent(<<"android">>)
      [] OTHER -> AnyAgent(<<"mweb">>)

\* the yt-dlp command line
ExternalOpts == AnyAgent(<<"android">>)

MutInfoOpts(k) == {Identity(<<"android">>, UA_ANDROID)}

\* the identities of the metadata attempts; attempt 3 sets no
\* player_client and leaves the choice to the engine
InfoOpts(k) ==
    CASE k = 0 -> {Identity(<<"android">>, UA_ANDROID)}
      [] k = 1 -> {Identity(<<"ios">>, UA_IOS)}
      [] k = 2 -> {Identity(<<"tv_embedded">>, UA_TV)}
      [] k = 3 -> AnyAgent(<<"engine default">>)
      [] k = 4 -> AnyAgent(<<"tv_embedded", "android">>)
      [] OTHER -> AnyAgent(<<"mweb">>)

Opts(path, k) == IF path = "info" THEN InfoOpts(k) ELSE get_enhanced_ydl_opts(k)

\* random.uniform(a, b), in ticks: the two ends of the range
Uniform(a, b) == {a * TicksPerSec, b * TicksPerSec}

\* min(attempt * 2 + random.uniform(1, 4), 15) inside the executor's
\* extract(); nothing before download attempt 0 and
\* min(attempt * 5 + random.uniform(3, 10), 45) before the others
PaceDraws(path) == IF path = "info" THEN Uniform(1, 4) ELSE Uniform(3, 10)
PaceDelay(path, k, u) ==
    IF path = "info" THEN Min(k * 2 * TicksPerSec + u, 15 * TicksPerSec)
    ELSE IF k > 0 THEN Min(k * 5 * TicksPerSec + u, 45 * TicksPerSec)
    ELSE 0

\* min(attempt * 3 + random.uniform(2, 8), 30)
BackoffDraws == Uniform(2, 8)
Backoff(k, u) == Min(k * 3 * TicksPerSec + u, 30 * TicksPerSec)

\* timeout=60 of get_enhanced_info, timeout=300 of an attempt,
\* timeout=180 of the command
INFO_BUDGET == 60
ATTEMPT_TIMEOUT == 300
COMMAND_TIMEOUT == 180

\* how long an engine call can take, in ticks
EngineTicks(path) ==
    IF path = "info" THEN {0, EngineSecs * TicksPerSec}
    ELSE {0, ATTEMPT_TIMEOUT * TicksPerSec}
CommandTicks == {0, COMMAND_TIMEOUT * TicksPerSec}

NoTrail == [path |-> "none", pc |-> "idle", attempt |-> 0, identity |-> NoIdentity,
            started |-> 0, wake |-> 0, invoked |-> -1, calls |-> 0,
            in_engine |-> 0, failure |-> "None", last_error |-> "None",
            owed |-> FALSE, unslept |-> FALSE, all_raised |-> TRUE, cut |-> "none",
            outcome |-> "none"]

Raises == {"bot", "rate_limited", "other"}
\* how an engine call that returns can end: with a result, with None or
\* no file, or with an exception
LoopResults == {"ok", "none"} \cup Raises

Deadline(l) == trail[l].started + INFO_BUDGET * TicksPerSec
\* the metadata loop is still inside wait_for
Budgeted(l) ==
    trail[l].path = "info" /\ trail[l].pc # "done" /\ trail[l].outcome = "none"
Runs(l) == Budgeted(l) => now <= Deadline(l)

TrailUnchangedBut(l, new) ==
    /\ trail' = [trail EXCEPT ![l] = new]
    /\ UNCHANGED <<now, limiter_vars, cache_vars, job_vars, info, served, issued, sweep_pc,
                   shown>>

\* the loop begins
LoopStart(l, path) ==
    /\ trail[l].pc = "idle"
    /\ path \in {"info", "download"}
    /\ TrailUnchangedBut(l, [NoTrail EXCEPT !.path = path, !.pc = "opts", !.started = now])

\* the attempt's options are built and its delay begins; the delay
\* before a later download attempt is the loop's backoff
LoopOpts(l, id, u) ==
    LET t == trail[l]
        d == PaceDelay(t.path, t.attempt, u)
    IN  /\ t.pc = "opts" /\ Runs(l)
        /\ id \in Opts(t.path, t.attempt)
        /\ u \in PaceDraws(t.path)
        /\ TrailUnchangedBut(l, [t EXCEPT !.identity = id, !.pc = "pace",
                                          !.wake = now + d,
                                          !.unslept = @ /\ d = 0,
                                          !.owed = @ /\ ~(t.path = "download" /\ d > 0)])

\* the delay is over, the engine is called; the call ends after dur ticks
LoopInvoke(l, dur) ==
    LET t == trail[l]
    IN  /\ t.pc = "pace" /\ now >= t.wake /\ Runs(l)
        /\ dur \in EngineTicks(t.path)
        /\ TrailUnchangedBut(l, [t EXCEPT !.pc = "engine", !.invoked = now,
                                          !.calls = @ + 1, !.wake = now + dur])

MutNextProfile(t) == [t EXCEPT !.pc = "opts"]

\* the loop goes to its next attempt, or leaves
NextProfile(t) ==
    IF t.attempt + 1 < (IF t.path = "info" THEN INFO_ATTEMPTS ELSE NUM_PROFILES)
    THEN [t EXCEPT !.attempt = @ + 1, !.pc = "opts"]
    ELSE IF t.path = "info" THEN [t EXCEPT !.pc = "done", !.outcome = "failed"]
    ELSE [t EXCEPT !.pc = "external"]

\* the engine call has ended. On the metadata path an exception is
\* followed by the sleep of the except clause, a None result by the next
\* iteration; on the download path both by the next iteration
LoopReturn(l, result, u) ==
    LET t == trail[l]
        timed_out == t.path = "download"
                     /\ now - t.invoked >= ATTEMPT_TIMEOUT * TicksPerSec
        f == [t EXCEPT !.owed = TRUE, !.unslept = TRUE,
                       !.in_engine = @ + (now - t.invoked),
                       !.all_raised = @ /\ result \in Raises,
                       !.failure = IF timed_out THEN "timeout" ELSE result,
                       !.last_error = IF timed_out THEN "timeout"
                                      ELSE IF result \in Raises THEN result ELSE @]
    IN  /\ t.pc = "engine" /\ now >= t.wake /\ Runs(l)
        /\ result \in LoopResults
        /\ u \in BackoffDraws
        /\ timed_out => result = "none"
        /\ TrailUnchangedBut(l,
              IF result = "ok" THEN [t EXCEPT !.pc = "done", !.outcome = "ok"]
              ELSE IF t.path = "info" /\ result \in Raises
              THEN [f EXCEPT !.pc = "backoff", !.wake = now + Backoff(t.attempt, u)]
              ELSE NextProfile(f))

\* the sleep of the except clause is over
LoopBackoffEnds(l) ==
    LET t == trail[l]
    IN  /\ t.pc = "backoff" /\ now >= t.wake /\ Runs(l)
        /\ TrailUnchangedBut(l, NextProfile([t EXCEPT !.owed = FALSE, !.unslept = FALSE]))

\* the yt-dlp command is run at once
LoopExternal(l, id, dur) ==
    LET t == trail[l]
    IN  /\ t.pc = "external"
        /\ id \in ExternalOpts
        /\ dur \in CommandTicks
        /\ TrailUnchangedBut(l, [t EXCEPT !.identity = id, !.pc = "command",
                                          !.invoked = now, !.calls = @ + 1,
                                          !.wake = now + dur])

\* the command has ended
LoopExternalEnds(l, result) ==
    LET t == trail[l]
    IN  /\ t.pc = "command" /\ now >= t.wake
        /\ result \in {"ok", "none"}
        /\ TrailUnchangedBut(l, [t EXCEPT !.pc = "done",
                                          !.outcome = IF result = "ok" THEN "ok" ELSE "failed"])

\* 60 s after the loop began wait_for gives it up; the executor's thread
\* is not stopped: if it sleeps it still calls the engine afterwards
LoopBudgetEnds(l) ==
    LET t == trail[l]
    IN  /\ Budgeted(l) /\ t.pc # "idle" /\ now >= Deadline(l)
        /\ TrailUnchangedBut(l, [t EXCEPT !.outcome = "timeout", !.cut = t.pc,
                                          !.pc = IF t.pc = "pace" THEN "orphan" ELSE "done"])

\* the abandoned thread's sleep is over and it calls the engine
LoopOrphanInvokes(l) ==
    LET t == trail[l]
    IN  /\ t.pc = "orphan" /\ now >= t.wake
        /\ TrailUnchangedBut(l, [t EXCEPT !.pc = "done", !.invoked = now, !.calls = @ + 1])

\* the instants at which a sleeping or waiting loop goes on
InstantsLoops ==
    {trail[l].wake : l \in {x \in Loops :
          trail[x].pc \in {"pace", "engine", "backoff", "command", "orphan"}}}
    \cup {Deadline(l) : l \in {x \in Loops : Budgeted(x) /\ trail[x].pc # "idle"}}

\* the loop has a step to take at this instant
Ready(l) ==
    \/ trail[l].pc \in {"opts", "external"}
    \/ trail[l].pc \in {"pace", "engine", "backoff", "command", "orphan"}
       /\ now >= trail[l].wake
    \/ Budgeted(l) /\ trail[l].pc # "idle" /\ now >= Deadline(l)

\* the steps of a loop take no time: time passes, up to the next of the
\* instants, while every loop sleeps or waits
LoopTick ==
    /\ \A l \in Loops : ~Ready(l)
    /\ \E t \in InstantsLoops :
          /\ t > now /\ t <= MaxLoopSecs * TicksPerSec
          /\ \A o \in InstantsLoops : o > now => t <= o
          /\ now' = t
    /\ UNCHANGED <<limiter_vars, cache_vars, job_vars, front_vars>>

\* one loop, of either kind
NextLoop ==
    \/ \E path \in {"info", "download"} : LoopStart(1, path)
    \/ \E id \in Opts(trail[1].path, trail[1].attempt), u \in PaceDraws(trail[1].path) :
          LoopOpts(1, id, u)
    \/ \E dur \in EngineTicks(trail[1].path) : LoopInvoke(1, dur)
    \/ \E result \in LoopResults, u \in BackoffDraws : LoopReturn(1, result, u)
    \/ LoopBackoffEnds(1)
    \/ \E id \in ExternalOpts, dur \in CommandTicks : LoopExternal(1, id, dur)
    \/ \E result \in {"ok", "none"} : LoopExternalEnds(1, result)
    \/ LoopBudgetEnds(1)
    \/ LoopOrphanInvokes(1)
    \/ LoopTick

(* ------------------------------- Init --------------------------------- *)
Init ==
    /\ now = 0
    /\ request_limiter = [k \in Clients \X Endpoints |-> NoBucket]
    /\ rl_out = NoCall
    /\ rl_local = [t \in Threads |-> NoLocal]
    /\ rl_admitted = [k \in Clients \X Endpoints |-> 0]
    /\ memory_cache = [k \in CacheKeys |-> NoEntry]
    /\ cache_out = NoLookup
    /\ cache_hist = [k \in CacheKeys |-> [set |-> FALSE, at |-> 0, value |-> "v1"]]
    /\ others = [requests |-> 0, admitted |-> 0, downloading |-> MAX_CONCURRENT_DOWNLOADS - 1,
                 twin |-> NoTwin]
    /\ download_status = [j \in Jobs |-> "none"]
    /\ recA = [j \in Jobs |-> NoRecA]
    /\ recB = [j \in Jobs |-> NoRecB]
    /\ failed_attempts = [u \in Urls |-> 0]
    /\ resp = [j \in Jobs |-> NoResp]
    /\ pc = [j \in Jobs |-> "idle"]
    /\ attempt = [j \in Jobs |-> 0]
    /\ last_error = [j \in Jobs |-> "None"]
    /\ engine = [j \in Jobs |-> [a \in Attempts |-> "idle"]]
    /\ hook = [j \in Jobs |-> [a \in Attempts |-> NoHook]]
    /\ files = [j \in Jobs |-> [n \in FileNames |-> NoFile]]
    /\ hist = [j \in Jobs |-> NoHist]
    /\ info = [r \in InfoReqs |-> NoInfo]
    /\ served = NoServed
    /\ issued = EmptyBag
    /\ sweep_pc = "files"
    /\ trail = [l \in Loops |-> NoTrail]
    /\ shown = [j \in Jobs |-> [a \in Attempts |-> NoShown]]

(* ------------------- specification of the download jobs --------------- *)
Next ==
    \/ \E j \in Jobs, u \in RequestUrls, q \in RequestQualities :
          start_enhanced_download(j, "c1", u, q)
    \/ \E u \in Urls : OtherRequest(u, "best")
    \/ OtherRegisters
    \/ \E j \in Jobs : CreateRecord(j)
    \/ \E j \in Jobs : BeginAttempt(j)
    \/ \E j \in Jobs, mode \in {"prompt", "slow"} : InvokeEngine(j, mode)
    \/ \E j \in Jobs, out \in EngineOutcomes : AwaitResult(j, out)
    \/ \E j \in Jobs : AttemptTimeout(j)
    \/ \E j \in Jobs, a \in Attempts, out \in {"ok", "nofile"} : AbandonedEnds(j, a, out)
    \/ \E j \in Jobs, a \in Attempts, d \in ProgressEvents : ProgressCallback(j, a, d)
    \/ \E j \in Jobs : StartExternal(j)
    \/ \E j \in Jobs, out \in {"ok", "nofile", "timeout"} : ExternalEnds(j, out)
    \/ cleanup_old_files
    \/ Tick

Spec == Init /\ [][Next]_vars

(* ---------------- specification of the rate limiter ------------------- *)
\* the instants at which a bucket's behaviour changes: half a second
\* before its reset time, the reset time itself, half a second after
InstantsRL ==
    { request_limiter[k].reset_time - Epoch + d :
        k \in {x \in Clients \X Endpoints : request_limiter[x].present},
        d \in {-1, 0, 1} }

ElapseRL ==
    /\ \E t \in InstantsRL : t > now /\ t <= MaxTimeRL /\ now' = t
    /\ UNCHANGED <<limiter_vars, cache_vars, job_vars, front_vars>>

\* one client's requests, up to MaxOver beyond each endpoint's threshold
CallRL(c, e) ==
    /\ LimiterAfter(request_limiter, c, e).count <= limits(e).count + MaxOver
    /\ is_rate_limited(c, e)
    /\ UNCHANGED <<now, cache_vars, job_vars, front_vars>>

NextRL == (\E e \in Endpoints : CallRL("c1", e)) \/ ElapseRL

SpecRL == Init /\ [][NextRL]_vars

\* every client and endpoint, at most MaxBurst requests per bucket and window
CallBurst(c, e) ==
    /\ LimiterAfter(request_limiter, c, e).count <= MaxBurst
    /\ is_rate_limited(c, e)
    /\ UNCHANGED <<now, cache_vars, job_vars, front_vars>>

\* two request threads of one client inside is_rate_limited at once
RaceEnter(t, c, e) ==
    /\ LimiterGet(request_limiter, limiter_key(c, e)).count <= limits(e).count
    /\ RLEnter(t, c, e)

\* the clock moves to half a second after a bucket's reset time
ElapseRace ==
    /\ \E k \in {x \in Clients \X Endpoints : request_limiter[x].present} :
          LET t == request_limiter[k].reset_time - Epoch + 1
          IN  t > now /\ t <= MaxTimeRace /\ now' = t
    /\ UNCHANGED <<limiter_vars, cache_vars, job_vars, front_vars>>

NextRace ==
    \/ \E t \in Threads : RaceEnter(t, "c1", "download")
    \/ \E t \in Threads : RLTest(t)
    \/ \E t \in Threads : RLZero(t)
    \/ \E t \in Threads : RLWindow(t)
    \/ \E t \in Threads : RLLoad(t)
    \/ \E t \in Threads : RLStore(t)
    \/ \E t \in Threads : RLDecide(t)
    \/ ElapseRace

SpecRace == Init /\ [][NextRace]_vars

(* ------------------ specification of one retry loop ------------------- *)
SpecLoop == Init /\ [][NextLoop]_vars

(* --------------- specification of two loops side by side -------------- *)
\* two loops that begin within MaxStartSecs of each other, each with the first identity of its attempts, the
\* shortest sleeps and engine calls that end at once
FirstOpts(l) == CHOOSE id \in Opts(trail[l].path, trail[l].attempt) : TRUE
Least(S) == CHOOSE x \in S : \A y \in S : x <= y
NextPacing ==
    \/ \E l \in Loops, path \in {"info", "download"} :
          now <= MaxStartSecs * TicksPerSec /\ LoopStart(l, path)
    \/ \E l \in Loops : LoopOpts(l, FirstOpts(l), Least(PaceDraws(trail[l].path)))
    \/ \E l \in Loops : LoopInvoke(l, 0)
    \/ \E l \in Loops, result \in {"ok", "none", "bot"} :
          LoopReturn(l, result, Least(BackoffDraws))
    \/ \E l \in Loops : LoopBackoffEnds(l)
    \/ \E l \in Loops : LoopExternal(l, CHOOSE id \in ExternalOpts : TRUE, 0)
    \/ \E l \in Loops, result \in {"ok", "none"} : LoopExternalEnds(l, result)
    \/ \E l \in Loops : LoopBudgetEnds(l)
    \/ \E l \in Loops : LoopOrphanInvokes(l)
    \/ LoopTick
SpecPacing == Init /\ [][NextPacing]_vars

NextBuckets == (\E c \in Clients, e \in Endpoints : CallBurst(c, e)) \/ ElapseRL

SpecBuckets == Init /\ [][NextBuckets]_vars

(* -------------------- specification of the cache ---------------------- *)
\* the instants at which an entry's behaviour changes
InstantsCache ==
    { memory_cache[k].expires - Uptime + d :
        k \in {x \in CacheKeys : memory_cache[x].present}, d \in {-1, 0, 1} }

ElapseCache ==
    /\ \E t \in InstantsCache : t > now /\ t <= MaxTimeCache /\ now' = t
    /\ UNCHANGED <<limiter_vars, cache_vars, job_vars, front_vars>>

CacheSet(k, v) ==
    /\ set_cached_data(k, v)
    /\ cache_hist' = [cache_hist EXCEPT ![k] = [set |-> TRUE, at |-> now, value |-> v]]
    /\ UNCHANGED <<now, limiter_vars, job_vars, front_vars>>

CacheGet(k) ==
    /\ get_cached_data(k)
    /\ UNCHANGED <<now, limiter_vars, cache_hist, job_vars, front_vars>>

NextCache ==
    \/ \E k \in CacheKeys, v \in CacheValues : CacheSet(k, v)
    \/ \E k \in CacheKeys : CacheGet(k)
    \/ ElapseCache

SpecCache == Init /\ [][NextCache]_vars

(* ------------- specification of the jobs and the sweeper -------------- *)
\* the download job of one client and the sweeper over a period longer than
\* FILE_RETENTION_TIME; the other clients' records are those of Init
NextSweep ==
    \/ \E j \in Jobs, u \in RequestUrls, q \in RequestQualities :
          start_enhanced_download(j, "c1", u, q)
    \/ \E j \in Jobs : CreateRecord(j)
    \/ \E j \in Jobs : BeginAttempt(j)
    \/ \E j \in Jobs, mode \in {"prompt", "slow"} : InvokeEngine(j, mode)
    \/ \E j \in Jobs, out \in EngineOutcomes : AwaitResult(j, out)
    \/ \E j \in Jobs : AttemptTimeout(j)
    \/ \E j \in Jobs, a \in Attempts, out \in {"ok", "nofile"} : AbandonedEnds(j, a, out)
    \/ \E j \in Jobs, a \in Attempts, d \in ProgressEvents : ProgressCallback(j, a, d)
    \/ \E j \in Jobs : StartExternal(j)
    \/ \E j \in Jobs, out \in {"ok", "nofile", "timeout"} : ExternalEnds(j, out)
    \/ cleanup_old_files
    \/ Tick
    \/ Age

SpecSweep == Init /\ [][NextSweep]_vars

(* ------------- specification of jobs and the size of files ------------ *)
\* the job's worker alone, with an engine that can write a file larger
\* than MAX_FILE_SIZE
NextSize ==
    \/ \E j \in Jobs, u \in RequestUrls, q \in RequestQualities :
          start_enhanced_download(j, "c1", u, q)
    \/ \E j \in Jobs : CreateRecord(j)
    \/ \E j \in Jobs : BeginAttempt(j)
    \/ \E j \in Jobs, mode \in {"prompt", "slow"} : InvokeEngine(j, mode)
    \/ \E j \in Jobs, out \in SizedOutcomes : AwaitResult(j, out)
    \/ \E j \in Jobs : AttemptTimeout(j)
    \/ \E j \in Jobs, a \in Attempts, out \in {"ok", "nofile"} : AbandonedEnds(j, a, out)
    \/ \E j \in Jobs, a \in Attempts, d \in ProgressEvents : ProgressCallback(j, a, d)
    \/ \E j \in Jobs : StartExternal(j)
    \/ \E j \in Jobs, out \in {"ok", "nofile", "timeout"} : ExternalEnds(j, out)
    \/ Tick

SpecSize == Init /\ [][NextSize]_vars

(* ------------------ specification of the job's artifact --------------- *)
\* the job's worker with engine calls and a command that end in time and
\* leave a finished file, a .part file, a file of TinySize bytes or none
NextArtifact ==
    \/ \E j \in Jobs, u \in RequestUrls, q \in RequestQualities :
          start_enhanced_download(j, "c1", u, q)
    \/ \E j \in Jobs : CreateRecord(j)
    \/ \E j \in Jobs : BeginAttempt(j)
    \/ \E j \in Jobs : InvokeEngine(j, "prompt")
    \/ \E j \in Jobs, out \in {"ok", "nofile", "raise", "partial", "tiny"} :
          AwaitResult(j, out)
    \/ \E j \in Jobs : StartExternal(j)
    \/ \E j \in Jobs, out \in {"ok", "nofile", "partial", "tiny"} : ExternalEnds(j, out)
    \/ Tick

SpecArtifact == Init /\ [][NextArtifact]_vars

(* --------------- specification of two jobs with one id ---------------- *)
\* job j, its progress hooks, and the attempts of a twin whose engine
\* calls all raise
NextTwin ==
    \/ \E j \in Jobs, u \in RequestUrls, q \in RequestQualities :
          start_enhanced_download(j, "c1", u, q)
    \/ \E j \in Jobs : TwinRequest(j)
    \/ \E j \in Jobs : TwinCreateRecord(j)
    \/ \E j \in Jobs : TwinBeginAttempt(j)
    \/ \E j \in Jobs : TwinAttemptEnds(j)
    \/ \E j \in Jobs : CreateRecord(j)
    \/ \E j \in Jobs : BeginAttempt(j)
    \/ \E j \in Jobs : InvokeEngine(j, "prompt")
    \/ \E j \in Jobs, out \in {"ok", "nofile", "raise"} : AwaitResult(j, out)
    \/ \E j \in Jobs, a \in Attempts, d \in ProgressEvents : ProgressCallback(j, a, d)
    \/ \E j \in Jobs : StartExternal(j)
    \/ \E j \in Jobs, out \in {"ok", "nofile"} : ExternalEnds(j, out)
    \/ Tick

SpecTwin == Init /\ [][NextTwin]_vars

(* ------------- specification of jobs and their progress hooks --------- *)
\* the job's worker, with engine calls that end within their 300 s and
\* every call of the hooks of its first attempts, on a clock of one tick
HookAttempts == 0 .. (MaxHooks - 1)
NextThrottle ==
    \/ \E j \in Jobs, u \in RequestUrls, q \in RequestQualities :
          start_enhanced_download(j, "c1", u, q)
    \/ \E j \in Jobs : CreateRecord(j)
    \/ \E j \in Jobs : BeginAttempt(j)
    \/ \E j \in Jobs : InvokeEngine(j, "prompt")
    \/ \E j \in Jobs, out \in EngineOutcomes : AwaitResult(j, out)
    \/ \E j \in Jobs, a \in HookAttempts, d \in ProgressEvents : HookCall(j, a, d)
    \/ \E j \in Jobs : StartExternal(j)
    \/ \E j \in Jobs, out \in {"ok", "nofile", "timeout"} : ExternalEnds(j, out)
    \/ TickOne

SpecThrottle == Init /\ [][NextThrottle]_vars

(* ---------------- specification of the GET endpoints ------------------ *)
\* one job from request to terminal record, the sweeper, and calls of the
\* two GET endpoints for the job's id
NextServe ==
    \/ \E j \in Jobs, u \in RequestUrls, q \in RequestQualities :
          start_enhanced_download(j, "c1", u, q)
    \/ \E j \in Jobs : CreateRecord(j)
    \/ \E j \in Jobs : BeginAttempt(j)
    \/ \E j \in Jobs, mode \in {"prompt", "slow"} : InvokeEngine(j, mode)
    \/ \E j \in Jobs, out \in EngineOutcomes : AwaitResult(j, out)
    \/ \E j \in Jobs : AttemptTimeout(j)
    \/ \E j \in Jobs, a \in Attempts, out \in {"ok", "nofile"} : AbandonedEnds(j, a, out)
    \/ \E j \in Jobs : StartExternal(j)
    \/ \E j \in Jobs, out \in {"ok", "nofile", "timeout"} : ExternalEnds(j, out)
    \/ \E j \in Jobs, a \in Attempts, d \in ProgressEvents : ProgressCallback(j, a, d)
    \/ cleanup_old_files
    \/ Age
    \/ \E e \in {"status", "file"}, id \in Jobs : Lookup(e, id)
    \/ get_enhanced_status
    \/ FileRead
    \/ FileDecide
    \/ download_enhanced_file

SpecServe == Init /\ [][NextServe]_vars

(* ------------------ specification of the two handlers ----------------- *)
\* the requests of one client to both POST endpoints, with the workers
\* up to the point where their records count as 'downloading'
NextHandlers ==
    \/ \E j \in Jobs, u \in RequestUrls, q \in RequestQualities :
          start_enhanced_download(j, "c1", u, q)
    \/ \E u \in Urls : OtherRequest(u, "best")
    \/ OtherRegisters
    \/ \E j \in Jobs : CreateRecord(j)
    \/ \E j \in Jobs : BeginAttempt(j)
    \/ \E r \in InfoReqs, u \in RequestUrls : get_enhanced_info(r, "c1", u)
    \/ \E r \in InfoReqs, out \in InfoOutcomes : InfoEngineReturns(r, out)
    \/ \E r \in InfoReqs : InfoTimeout(r)

SpecHandlers == Init /\ [][NextHandlers]_vars

(* --------------- specification of the failure counter ----------------- *)
\* the client that got the answer of request r sends another request
InfoAgain(r) ==
    /\ info[r].pc = "answered"
    /\ info' = [info EXCEPT ![r] = NoInfo]
    /\ UNCHANGED failed_attempts
    /\ InfoUnchangedBut(UNCHANGED <<limiter_vars, cache_vars>>)

\* metadata requests of one client, one after the other, MaxInfoCalls of
\* them with a url, beside one download job whose engine calls end within
\* their 300 s
NextLockout ==
    \/ \E r \in {1}, u \in RequestUrls :
          /\ LimiterAfter(request_limiter, "c1", "info").count <= MaxInfoCalls
          /\ get_enhanced_info(r, "c1", u)
    \/ \E r \in {1}, out \in {"v1", "unavailable", "other"} :
          InfoEngineReturns(r, out)
    \/ \E r \in {1} : InfoExceptLoad(r)
    \/ \E r \in {1} : InfoExceptStore(r)
    \/ \E r \in {1} : InfoAgain(r)
    \/ \E j \in Jobs, u \in RequestUrls : start_enhanced_download(j, "c1", u, "best")
    \/ \E j \in Jobs : CreateRecord(j)
    \/ \E j \in Jobs : BeginAttempt(j)
    \/ \E j \in Jobs : InvokeEngine(j, "prompt")
    \/ \E j \in Jobs, out \in {"ok", "raise"} : AwaitResult(j, out)
    \/ \E j \in Jobs : StartExternal(j)
    \/ \E j \in Jobs, out \in {"ok", "nofile"} : ExternalEnds(j, out)
    \/ (now = 0 /\ Tick)

SpecLockout == Init /\ [][NextLockout]_vars

(* ---------------- specification of the download ids ------------------ *)
\* the download handler under requests of several clients for several
\* urls and qualities, up to the registration of the jobs
NextIds ==
    \/ \E j \in Jobs, u \in RequestUrls, q \in RequestQualities :
          start_enhanced_download(j, "c1", u, q)
    \/ \E u \in IdUrls, q \in IdQualities : OtherRequest(u, q)
    \/ OtherRegisters
    \/ \E j \in Jobs : CreateRecord(j)
    \/ Tick

SpecIds == Init /\ [][NextIds]_vars

(* ---------------- specification of the metadata path ------------------ *)
NextInfo ==
    \/ \E r \in InfoReqs, u \in RequestUrls : get_enhanced_info(r, "c1", u)
    \/ \E r \in InfoReqs, out \in InfoOutcomes : InfoEngineReturns(r, out)
    \/ \E r \in InfoReqs : InfoTimeout(r)
    \/ OthersFillCache
    \/ ElapseCache

SpecInfo == Init /\ [][NextInfo]_vars


(* ======================= claims: download jobs ======================== *)
TerminalStatus == {"completed", "error"}
ActiveStatus == {"initializing", "downloading"}

RecordNow(j) == Record(download_status, recA, recB, j)
RecordNext(j) == Record(download_status', recA', recB', j)
ActiveNow == ActiveCount(download_status, recA, recB, others.downloading)

\* request j is answered in this step
Answered(j) == pc[j] = "idle" /\ pc'[j] # "idle"

\* the answer is none of those given before the capacity check
PastRateLimit(j) ==
    resp'[j].kind \notin {"url_required", "invalid_quality", "rate_limited"}

\* C1: a download request that reaches the capacity check while
\* MAX_CONCURRENT_DOWNLOADS or more records are 'downloading' is answered
\* 429 with retry_after > 0; the step creates no record, starts no worker
\* and makes no engine call.
C1_RejectedAtCapacity ==
    [][\A j \in Jobs :
          (Answered(j) /\ PastRateLimit(j) /\ ActiveNow >= MAX_CONCURRENT_DOWNLOADS)
          => /\ resp'[j].kind = "capacity"
             /\ resp'[j].code = 429
             /\ resp'[j].retry_after > 0
             /\ pc'[j] = "rejected"
             /\ <<download_status, recA, recB>>' = <<download_status, recA, recB>>
             /\ <<engine, hist, attempt>>' = <<engine, hist, attempt>>]_vars

\* a request was rejected with exactly MAX_CONCURRENT_DOWNLOADS records
\* 'downloading'
C1_Witness ==
    \E j \in Jobs :
        /\ resp[j].kind = "capacity"
        /\ pc[j] = "rejected"
        /\ download_status[j] = "none"
        /\ ActiveNow = MAX_CONCURRENT_DOWNLOADS

\* C2: in every reachable state at most MAX_CONCURRENT_DOWNLOADS records
\* have status 'downloading'.
C2_CapacityBound == ActiveNow <= MAX_CONCURRENT_DOWNLOADS

\* no thread of job j is left and the sweeper does not take its record:
\* nothing will write the record again
Settled(j) ==
    /\ pc[j] = "done"
    /\ \A a \in Attempts : engine[j][a] \notin Running
    /\ ~Expired(j)

\* C3: no job stays 'initializing' or 'downloading' forever: once the
\* worker and every engine call of a job have ended and the sweeper leaves
\* its record alone, the record is not in one of these two statuses.
C3_NoJobStaysActive ==
    \A j \in Jobs : Settled(j) => RecordNow(j).status \notin ActiveStatus

\* C4: once the record of a job is 'completed' or 'error', no step changes
\* its status or its progress while the registry holds the record.
C4_TerminalAbsorbing ==
    [][\A j \in Jobs :
          (RecordNow(j).status \in TerminalStatus /\ RecordNext(j).present)
          => /\ RecordNext(j).status = RecordNow(j).status
             /\ RecordNext(j).progress = RecordNow(j).progress]_vars

\* C5: while a job is not terminal, no step lowers the progress stored in
\* its record.
C5_ProgressMonotone ==
    [][\A j \in Jobs :
          (RecordNow(j).status \in ActiveStatus /\ RecordNext(j).status \in ActiveStatus)
          => RecordNext(j).progress >= RecordNow(j).progress]_vars

\* engine invocations of job j so far: in-process calls and the yt-dlp
\* command
Invocations(j) == hist[j].inproc + hist[j].ext

\* C6: a job whose engine invocations all fail with a retryable result
\* makes at most NUM_PROFILES of them, and has made exactly NUM_PROFILES
\* when it ends in 'error' (stated for the jobs whose record the sweeper
\* did not remove while they ran).
C6_ExhaustionAfterN ==
    \A j \in Jobs :
        (hist[j].all_retryable /\ ~hist[j].swept)
        => /\ Invocations(j) <= NUM_PROFILES
           /\ (pc[j] = "done" /\ RecordNow(j).status = "error")
                 => Invocations(j) = NUM_PROFILES

\* C7: after an attempt of a job has failed as Unavailable the job is
\* over, with the error record in the registry.
C7_UnavailableEndsJob ==
    \A j \in Jobs : hist[j].unavailable => (pc[j] = "done" /\ download_status[j] = "B")

(* ======================= claims: rate limiter ========================= *)
Keys == Clients \X Endpoints

\* what one is_rate_limited call does to its bucket, the retry_after hint
\* left aside: a bucket is created or re-opened with counter 1, otherwise
\* counted up; the request is rejected exactly when the counter exceeds
\* the endpoint's threshold
WindowStep(key) ==
    LET old == request_limiter[key]
        new == request_limiter'[key]
        lim == limits(key[2])
    IN  /\ (old.present /\ time_time <= old.reset_time) =>
              /\ new.count = old.count + 1
              /\ new.reset_time = old.reset_time
        /\ (~old.present \/ time_time > old.reset_time) =>
              /\ new.count = 1
              /\ new.reset_time = time_time + WINDOW * TicksPerSec
              /\ ~rl_out'.is_limited
        /\ rl_out'.is_limited <=> (new.count > lim.count)
        /\ (old.present /\ old.count > lim.count /\ time_time < old.reset_time)
              => rl_out'.is_limited
        /\ ~rl_out'.is_limited => rl_out'.retry_after = 0
        /\ lim.count = IF key[2] = "info" THEN 30 ELSE 10

\* the time left until the bucket's reset, in ticks, when the call returns
Remaining(key) == request_limiter'[key].reset_time - time_time

\* C8 as stated: a rejected request is told exactly the time remaining
\* until the window's reset time.
C8_ExactRetryAfter ==
    [][\A key \in Keys :
         request_limiter'[key] # request_limiter[key] =>
            /\ WindowStep(key)
            /\ rl_out'.is_limited =>
                  rl_out'.retry_after * TicksPerSec = Remaining(key)]_vars

\* C8 amended: fixed-window rate limit, sequential case. Requests are
\* admitted while the window's counter is at most the threshold (30 info,
\* 10 download), every further request before the reset time is rejected,
\* the first request after the reset time opens a new window with counter
\* 1, and a rejection's retry_after is the time remaining until the reset
\* rounded down to whole seconds.
C8_TruncatedRetryAfter ==
    [][\A key \in Keys :
         request_limiter'[key] # request_limiter[key] =>
            /\ WindowStep(key)
            /\ rl_out'.is_limited =>
                  /\ rl_out'.retry_after * TicksPerSec <= Remaining(key)
                  /\ Remaining(key) < (rl_out'.retry_after + 1) * TicksPerSec]_vars

\* an eleventh download request, rejected half a second before the reset
C8_Witness ==
    /\ rl_out.called /\ rl_out.is_limited
    /\ rl_out.endpoint = "download" /\ rl_out.count = DOWNLOAD_LIMIT + 1
    /\ rl_out.reset_time - (Epoch + rl_out.at) = 1
    /\ rl_out.retry_after = 0

\* C9: a request by client c on one endpoint class changes the bucket
\* (c, endpoint) and no other bucket, and the download threshold is
\* strictly lower than the metadata threshold.
C9_BucketsIndependent ==
    [][/\ limits("download").count < limits("info").count
       /\ \A c \in Clients, e \in Endpoints :
            (rl_out' # rl_out /\ rl_out'.client = c /\ rl_out'.endpoint = e) =>
               /\ request_limiter'[<<c, e>>] # request_limiter[<<c, e>>]
               /\ request_limiter'[<<c, e>>].count = rl_out'.count
               /\ \A k \in Keys \ {<<c, e>>} :
                     request_limiter'[k] = request_limiter[k]]_vars

\* all four buckets in use with different contents, c2's download request
\* being the latest
C9_Witness ==
    /\ request_limiter[<<"c1", "info">>].count = 2
    /\ request_limiter[<<"c1", "download">>].count = 1
    /\ request_limiter[<<"c2", "info">>].count = 1
    /\ request_limiter[<<"c2", "download">>].count = 2
    /\ request_limiter[<<"c1", "info">>].reset_time # request_limiter[<<"c2", "download">>].reset_time
    /\ rl_out.client = "c2" /\ rl_out.endpoint = "download"

(* ========================== claims: cache ============================= *)
TTL == CACHE_DURATION * TicksPerSec

\* C10: get_cached_data(k) returns the value of the latest
\* set_cached_data(k, v) when less than CACHE_DURATION has elapsed since
\* that call (in particular immediately after it), and a miss once
\* CACHE_DURATION has elapsed or when k was never set.
C10_RoundTripAndExpiry ==
    [][cache_out' # cache_out =>
         LET h == cache_hist[cache_out'.key]
         IN  /\ (h.set /\ now < h.at + TTL) =>
                   (cache_out'.hit /\ cache_out'.value = h.value)
             /\ (h.set /\ now >= h.at + TTL) =>
                   (~cache_out'.hit /\ cache_out'.value = "None")
             /\ ~h.set => ~cache_out'.hit]_vars

\* a lookup exactly CACHE_DURATION after the insertion misses, while the
\* other key, set half a second later, still holds its value
C10_Witness ==
    /\ cache_out.called /\ ~cache_out.hit /\ cache_out.key = "k1"
    /\ cache_hist["k1"].set /\ cache_out.at = cache_hist["k1"].at + TTL
    /\ cache_hist["k2"].set /\ Live(memory_cache["k2"])
    /\ memory_cache["k2"].value = "v2"

(* ====================== claims: metadata path ========================= *)
\* request r is taken up in this step and reaches the cache check
Extracting(r) ==
    /\ info[r].pc = "idle" /\ info'[r].pc # "idle"
    /\ info'[r].answer.kind \notin {"url_required", "rate_limited", "failed_lockout"}

\* the extraction of request r succeeds in this step
Extracted(r) == info[r].pc = "extract" /\ info'[r].answer.kind = "success"

\* after the step the cache holds the data request r was answered with
HoldsAnswer(r) ==
    LET e == memory_cache'[info_key(info[r].url)]
    IN  e.present /\ monotonic < e.expires /\ e.value = info'[r].answer.data

\* request r is answered with data from the cache, without an engine call
FromCache(r, data) ==
    /\ info'[r].pc = "answered"
    /\ info'[r].answer = Success(data, TRUE)
    /\ info'[r].calls = 0

\* a step of request r other than a successful extraction leaves the
\* cache as it is
WritesNothing(r) ==
    (info'[r] # info[r] /\ ~Extracted(r)) => memory_cache' = memory_cache

\* C11 as stated: a successful extraction puts its result in the cache; a
\* request that reaches the cache check less than CACHE_DURATION after the
\* latest successful extraction of its url is answered from the cache with
\* that result and no engine call; no other step of a request changes the
\* cache.
C11_WithinTTLFromCache ==
    [][\A r \in InfoReqs :
          LET h == cache_hist[info_key(info'[r].url)]
          IN  /\ Extracted(r) => HoldsAnswer(r)
              /\ (Extracting(r) /\ h.set /\ now < h.at + TTL) => FromCache(r, h.value)
              /\ WritesNothing(r)]_vars

\* C11 with the size bound: as above, but the later request is answered
\* from the cache while the entry is still held, that is within
\* CACHE_DURATION and not evicted by the insertions of other urls; an
\* entry that is held is the result of the latest successful extraction.
C11_HeldEntryFromCache ==
    [][\A r \in InfoReqs :
          LET k == info_key(info'[r].url)
              h == cache_hist[k]
          IN  /\ Extracted(r) => HoldsAnswer(r)
              /\ (Extracting(r) /\ Live(memory_cache[k]))
                    => (h.set /\ now < h.at + TTL /\ FromCache(r, h.value))
              /\ WritesNothing(r)]_vars

\* a request was answered from the cache, with no engine call, some time
\* after another request's extraction of the same url had succeeded
C11_Witness ==
    \E r1, r2 \in InfoReqs :
        /\ info[r1].answer = Success("v2", FALSE) /\ info[r1].calls > 1
        /\ info[r2].answer = Success("v2", TRUE) /\ info[r2].calls = 0
        /\ cache_out.hit /\ cache_out.at > cache_hist["k1"].at

(* ======================== claims: rejections ========================== *)
Validation == {"url_required", "invalid_quality"}

\* the step leaves registry, workers and engine calls as they were
NothingEngaged ==
    /\ <<download_status, recA, recB, engine, hist, attempt>>'
          = <<download_status, recA, recB, engine, hist, attempt>>
    /\ \A j \in Jobs : pc'[j] \in {pc[j], "rejected"}
    /\ \A r \in InfoReqs :
          info'[r].calls = info[r].calls /\ (info'[r].pc = "extract" => info[r].pc = "extract")

\* C12: a download request rejected for a missing url, an invalid quality
\* or capacity, and a metadata request rejected for a missing url, make no
\* engine call, create no record and start no worker, in the step that
\* answers them and ever after; the validation rejections also leave the
\* rate limiter's buckets unchanged.
C12_RejectionsEngageNothing ==
    [][/\ \A j \in Jobs :
            /\ (Answered(j) /\ resp'[j].kind \in Validation \cup {"capacity"})
                  => (NothingEngaged /\ pc'[j] = "rejected")
            /\ (Answered(j) /\ resp'[j].kind \in Validation)
                  => request_limiter' = request_limiter
            /\ pc[j] = "rejected"
                  => (pc'[j] = "rejected" /\ download_status'[j] = "none"
                      /\ Invocations(j) = 0)
       /\ \A r \in InfoReqs :
            /\ (info[r].pc = "idle" /\ info'[r].answer.kind = "url_required")
                  => (NothingEngaged /\ request_limiter' = request_limiter)
            /\ info[r].answer.kind = "url_required"
                  => (info'[r].pc = "answered" /\ info'[r].calls = 0)]_vars

\* a download request was rejected for its quality and a metadata request
\* for its missing url, after a metadata request that was counted
C12_Witness ==
    /\ \E j \in Jobs : resp[j].kind = "invalid_quality" /\ pc[j] = "rejected"
    /\ \E r \in InfoReqs : info[r].answer.kind = "url_required" /\ info[r].calls = 0
    /\ request_limiter[<<"c1", "info">>].count = 1
    /\ ~request_limiter[<<"c1", "download">>].present

(* ======================= claims: GET endpoints ======================== *)
\* a call of the endpoint takes a step
Serves(endpoint) == served' # served /\ served'.endpoint = endpoint

RegistryAndFilesKept ==
    <<download_status, recA, recB, files>>' = <<download_status, recA, recB, files>>

\* the dict a call of the file endpoint works on
FileDict ==
    IF served.ref = "A" THEN recA[served.id]
    ELSE [status |-> recB[served.id].status, file_path |-> "None"]

\* C13: the file endpoint answers 404 for an id the registry does not
\* hold, 400 when the record it read is not 'completed' and 404 when the
\* record's file does not exist; it sends the file (200) only after it
\* has read a record that was 'completed' and whose file existed, and
\* only while the file exists; no step of it changes registry or files.
C13_FileEndpoint ==
    [][Serves("file") =>
         /\ RegistryAndFilesKept
         /\ (served.phase \in {"none", "done"} /\ download_status[served'.id] = "none")
               => (served'.phase = "done" /\ served'.code = 404)
         /\ (served.phase = "held" /\ FileDict.status # "completed")
               => (served'.phase = "done" /\ served'.code = 400)
         /\ (served.phase = "held" /\ FileDict.status = "completed"
               /\ ~Exists(files[served.id][FileDict.file_path]))
               => (served'.phase = "done" /\ served'.code = 404)
         /\ served'.phase = "send"
               => (served.ref = "A" /\ FileDict.status = "completed"
                   /\ Exists(files[served.id][FileDict.file_path]))
         /\ served'.code = 200
               => (served.phase = "send" /\ served.status = "completed"
                   /\ Exists(files[served.id][recA[served.id].file_path]))]_vars

\* the file of a completed job was sent
C13_Witness ==
    /\ served.endpoint = "file" /\ served.phase = "done" /\ served.code = 200
    /\ recA[served.id].status = "completed"
    /\ Exists(files[served.id][recA[served.id].file_path])

\* C14: the status endpoint answers 404 for an id the registry does not
\* hold; for a record it holds the answer is 200 with the record's status
\* and progress and without 'file_path'; no step of it changes registry or
\* files.
C14_StatusSnapshot ==
    [][Serves("status") =>
         /\ RegistryAndFilesKept
         /\ (served.phase \in {"none", "done"} /\ download_status[served'.id] = "none")
               => (served'.phase = "done" /\ served'.code = 404)
         /\ (served.phase = "found" /\ download_status[served.id] # "none")
               => /\ served'.phase = "done" /\ served'.code = 200
                  /\ served'.status = RecordNow(served.id).status
                  /\ served'.progress = RecordNow(served.id).progress
                  /\ ~served'.has_path]_vars

\* the status of a completed job, whose record names its file, was
\* returned without the path
C14_Witness ==
    /\ served.endpoint = "status" /\ served.phase = "done" /\ served.code = 200
    /\ served.status = "completed" /\ served.progress = 100 /\ ~served.has_path
    /\ download_status[served.id] = "A" /\ recA[served.id].file_path = "media"


(* ------------------------- claims: download ids ----------------------- *)
\* C15: job identifiers are unique: no two admitted download requests are
\* given the same id, two requests for the same url and quality that
\* read the same clock value included
C15_IdsUnique == \A id \in BagToSet(issued) : CopiesIn(id, issued) = 1


(* --------------------------- claims: sweeper -------------------------- *)
\* the registry holds a 'completed' record for job j
Completed(j) == download_status[j] = "A" /\ recA[j].status = "completed"

\* C16: in every reachable state a job whose record is 'completed' has a
\* backing file that exists: the sweeper never removes the file and
\* leaves the record 'completed'
C16_CompletedHasFile ==
    \A j \in Jobs : Completed(j) => Exists(files[j][recA[j].file_path])


\* the time since the record of job j was created (line 591) or replaced
\* by the error dict (line 707), each on the clock that stamped it
RecordAge(j) ==
    IF download_status[j] = "A" THEN perf_counter - recA[j].start_time
    ELSE time_time - recB[j].timestamp

\* the step removes the record of job j from the registry
Purged(j) == download_status[j] # "none" /\ download_status'[j] = "none"

\* C17: the sweeper purges a record only if the job is in a terminal state
\* and older than FILE_RETENTION_TIME: never the record of a job that is
\* still 'initializing' or 'downloading', nor of a younger job
C17_PurgesOnlyOldTerminal ==
    [][\A j \in Jobs : Purged(j) =>
          RecordNow(j).status \in TerminalStatus /\ RecordAge(j) > Retention]_vars

\* C18: every terminal record, 'completed' as well as 'error', is purged
\* by the periodic sweeper once it is older than FILE_RETENTION_TIME: a
\* sweep's pass over the registry leaves no such record behind
C18_SweepPurgesOldTerminal ==
    [][CleanupRecords =>
          \A j \in Jobs :
              (download_status[j] # "none" /\ RecordNow(j).status \in TerminalStatus
                 /\ RecordAge(j) > Retention) => download_status'[j] = "none"]_vars


\* the first loop of a sweep, run now, would leave TEMP_DIR as it is
FilesNoop == FilesAfterSweep(files) = files

\* the second loop of a sweep, run now, would leave the registry as it is
RegistryNoop ==
    /\ RegistryAfterSweep(download_status) = download_status
    /\ OthersAfterSweep(others) = others

SweepNoop == FilesNoop /\ RegistryNoop

\* C19: the sweep is idempotent: a sweep run immediately after another
\* sweep, with nothing in between, changes neither the artifact store nor
\* the registry: each loop of a sweep leaves what it went through in a
\* state that the same loop, run again at once, does not change
C19_SweepIdempotent ==
    [][/\ CleanupFiles => FilesNoop'
       /\ CleanupRecords => RegistryNoop']_vars

\* a sweep has removed the file and the record of a completed job, and
\* the sweeper is about to sweep again
C19_Witness ==
    \E j \in Jobs :
        /\ sweep_pc = "files" /\ now > Retention
        /\ pc[j] = "done" /\ download_status[j] = "none"
        /\ recA[j].status = "completed" /\ ~Exists(files[j][recA[j].file_path])
        /\ SweepNoop


(* ------------------------- claims: attempts --------------------------- *)
\* the attempts of job j whose engine call is executing
Executing(j) == {a \in Attempts : engine[j][a] \in Running}

\* C20: the attempts of one job never overlap: at any time at most one
\* engine call of a job is executing, also after an attempt has hit its
\* 300 s timeout
C20_AttemptsSequential == \A j \in Jobs : Cardinality(Executing(j)) <= 1


(* ---------------------- claims: record writers ------------------------ *)
\* the threads whose next step, taken now, writes or deletes the record
\* that download_status holds for job j: the job loop (lines 603 and
\* 648), the progress hook of an executing attempt (line 210), and the
\* sweeper's pass over the registry (line 742)
Writers(j) ==
    {t \in {"loop"} : pc[j] \in {"begin", "fallback"} /\ download_status[j] = "A"}
    \cup {<<"hook", a>> : a \in {b \in Attempts :
              /\ engine[j][b] \in Running
              /\ ~Throttled(hook[j][b])
              /\ download_status[j] # "none"
              /\ StatusRef(hook[j][b], j) = download_status[j]}}
    \cup {t \in {"sweeper"} : sweep_pc = "records" /\ Expired(j)}

\* C21: single writer per job record: at any time at most one thread can
\* write the record of a job; the job loop, the progress callbacks of its
\* attempts and the sweeper never write or delete it concurrently
C21_SingleWriter == \A j \in Jobs : Cardinality(Writers(j)) <= 1


(* ------------------ claims: rate limiter under threads ---------------- *)
\* C22: the rate-limit counters are updated atomically: for every
\* interleaving of concurrent requests of one client to one endpoint, the
\* number of requests admitted between two consecutive window resets never
\* exceeds the endpoint's threshold
C22_AdmittedWithinThreshold ==
    \A k \in Clients \X Endpoints : rl_admitted[k] <= limits(k[2]).count

(* ------------------------- identity of attempts ----------------------- *)
\* C23: when an attempt of a loop has failed as bot detection or as rate
\* limiting, the options of the loop's next attempt, and of the command
\* that follows the last one, differ from those of the attempt that failed
\* in the player clients or in the User-Agent
C23_IdentityChanges ==
    [][\A l \in Loops :
          (/\ trail[l].pc \in {"opts", "external"}
           /\ trail[l].failure \in {"bot", "rate_limited"}
           /\ trail'[l].pc \in {"pace", "command"})
          => trail'[l].identity # trail[l].identity]_vars

\* a metadata loop whose first attempt failed as bot detection has built
\* the options of its second attempt
C23_Witness ==
    \E l \in Loops :
        /\ trail[l].path = "info" /\ trail[l].pc = "pace"
        /\ trail[l].attempt = 1 /\ trail[l].failure = "bot"
        /\ trail[l].identity = Identity(<<"ios">>, UA_IOS)

(* --------------------------- strategy index --------------------------- *)
\* C24: within one loop the strategy index never decreases: it stays or
\* grows by one, never exceeds 5, and the engine call made with index k is
\* the loop's call number k + 1, so the indices are used in the order
\* 0, 1, 2, ..., each once
C24_IndexInOrder ==
    [][\A l \in Loops :
          /\ trail'[l].attempt \in {trail[l].attempt, trail[l].attempt + 1}
          /\ trail'[l].attempt <= 5
          /\ (trail[l].pc = "pace" /\ trail'[l].pc = "engine")
             => trail[l].calls = trail[l].attempt]_vars

\* a download loop is in its sixth engine call, with index 5
C24_Witness ==
    \E l \in Loops :
        /\ trail[l].path = "download" /\ trail[l].pc = "engine"
        /\ trail[l].attempt = 5 /\ trail[l].calls = 6

(* ------------------------- backoff after failure ---------------------- *)
\* C25: an engine call of a loop, the command included, is never made at
\* the instant a failed attempt ended: between an attempt that failed and
\* the loop's next call the loop has slept
C25_BackoffAfterFailure ==
    \A l \in Loops : trail[l].pc \in {"engine", "command"} => ~trail[l].unslept

\* the attempts of both loops are made after a sleep
C25_AttemptsDelayed ==
    \A l \in Loops : trail[l].pc = "engine" => ~trail[l].unslept

\* a metadata attempt is never made while the loop still owes the sleep of
\* its except clause for the attempt before
C25_InfoBackoff ==
    \A l \in Loops :
        (trail[l].path = "info" /\ trail[l].pc = "engine") => ~trail[l].owed

(* ----------------------------- pacing floor --------------------------- *)
\* C26: two loops never call the engine at the same instant: the latest
\* calls of two loops are at least one tick of the clock apart
C26_InvocationsApart ==
    \A l1, l2 \in Loops :
        (l1 # l2 /\ trail[l1].invoked >= 0 /\ trail[l2].invoked >= 0)
        => trail[l1].invoked # trail[l2].invoked

(* --------------------------- metadata budget -------------------------- *)
\* C27: a metadata request that is given up because its 60 s budget is
\* over is answered with the timeout response, code 408
C27_BudgetAnswersTimeout ==
    [][\A r \in InfoReqs :
          InfoTimeout(r)
          => info'[r].answer.kind = "timeout" /\ info'[r].answer.code = 408]_vars

(* -------------------------- metadata exhaustion ----------------------- *)
\* the metadata loop has ended, every engine call it made raised, at
\* once, and none was given up while it ran
AllRaised(l) ==
    /\ trail[l].path = "info" /\ trail[l].outcome \notin {"none", "ok"}
    /\ trail[l].all_raised /\ trail[l].in_engine = 0
    /\ trail[l].cut # "engine"

\* C28: a metadata loop whose engine calls all raise ends after exactly 6
\* calls, failed with the error of the last one: the 60 s budget does not
\* end it before
C28_ExhaustionAfterSix ==
    \A l \in Loops :
        AllRaised(l)
        => /\ trail[l].outcome = "failed"
           /\ trail[l].calls = 6
           /\ trail[l].last_error \in Raises

\* a metadata loop whose calls all raise never gets as far as its sixth
C28_NeverSix ==
    \A l \in Loops : (AllRaised(l) /\ trail[l].cut # "pace") => trail[l].calls < 6

(* ------------------------------ size limit ---------------------------- *)
\* C29: a job whose record is 'completed' has a file that exists and is
\* not larger than MAX_FILE_SIZE
C29_CompletedWithinLimit ==
    \A j \in Jobs :
        Completed(j)
        => /\ Exists(files[j][recA[j].file_path])
           /\ ~OverMax(files[j][recA[j].file_path])

\* a job whose record is 'completed' has a file that exists
C29_CompletedExists ==
    \A j \in Jobs : Completed(j) => Exists(files[j][recA[j].file_path])

(* --------------------------- progress throttle ------------------------ *)
\* C30: two updates that the hook of one attempt applies to the job's
\* record are at least 1.5 s apart, however many calls come in between,
\* and a call of the hook that applies no update leaves the record as it is
C30_UpdatesThrottled ==
    [][\A j \in Jobs, a \in Attempts :
          /\ (shown[j][a].applied >= 1 /\ shown'[j][a].applied = shown[j][a].applied + 1)
             => 2 * (shown'[j][a].at - shown[j][a].at) >= 3 * TicksPerSec
          /\ shown'[j][a].since = shown[j][a].since + 1
             => /\ download_status'[j] = download_status[j]
                /\ recA'[j] = recA[j]
                /\ recB'[j] = recB[j]]_vars

\* a hook has applied two updates, with calls in between that applied none
C30_Witness ==
    \E j \in Jobs, a \in Attempts :
        shown[j][a].applied = 2 /\ shown[j][a].between >= 1

(* ----------------------- status of an answered job -------------------- *)
\* C31: once request j has been answered with success and its id, a
\* status query for the id is answered 404 only after the job's record
\* was created and removed again: never while the worker has yet to
\* create it
C31_KnownOnceAnswered ==
    [][\A j \in Jobs :
          (/\ resp[j].kind = "started"
           /\ Lookup("status", j)
           /\ served'.code = 404)
          => pc[j] # "spawned"]_vars

(* ------------------------ the retry_after hint ------------------------ *)
\* the latest call of is_rate_limited rejected a request of client c to
\* endpoint e, and its hint is over now, to the tick
HintOver(c, e) ==
    /\ rl_out.called /\ rl_out.client = c /\ rl_out.endpoint = e
    /\ rl_out.is_limited
    /\ now = rl_out.at + rl_out.retry_after * TicksPerSec

\* the same, for a rejection that fell on a whole second before the reset
\* of the window, so that the hint is the time that remained
ExactHintOver(c, e) ==
    /\ HintOver(c, e)
    /\ rl_out.reset_time - Epoch = now

\* C32: a request that follows a rejected request of the same client to
\* the same endpoint, as the next call of the limiter and retry_after
\* seconds after it, is admitted
C32_HintSuffices ==
    [][\A c \in Clients, e \in Endpoints :
          (HintOver(c, e) /\ CallRL(c, e)) => ~rl_out'.is_limited]_vars

\* the same for the hints that lost nothing to int()
C32_ExactHintSuffices ==
    [][\A c \in Clients, e \in Endpoints :
          (ExactHintOver(c, e) /\ CallRL(c, e)) => ~rl_out'.is_limited]_vars

(* --------------------------- failure lockout -------------------------- *)
\* no metadata extraction and no download job for the url is under way
NoneInFlight(u) ==
    /\ \A r \in InfoReqs : ~(info[r].pc \in {"extract", "except"} /\ info[r].url = u)
    /\ \A j \in Jobs : pc[j] \in {"idle", "rejected", "done"}

\* the step ends a metadata request for the url, or a download job, with
\* success
SuccessStep(u) ==
    \/ \E r \in InfoReqs :
          /\ info'[r].url = u /\ info[r].pc # "answered"
          /\ info'[r].pc = "answered" /\ info'[r].answer.kind = "success"
    \/ \E j \in Jobs : pc[j] # "done" /\ pc'[j] = "done" /\ download_status'[j] = "A"

\* the step ends an extraction for the url, or a download job, in failure
FailureStep(u) ==
    \/ \E r \in InfoReqs :
          /\ info[r].url = u /\ info[r].pc \in {"extract", "except"}
          /\ info'[r].pc = "answered" /\ info'[r].answer.kind # "success"
    \/ \E j \in Jobs : pc[j] # "done" /\ pc'[j] = "done" /\ download_status'[j] = "B"

\* the step calls the engine or the external command
EngineCalled ==
    \/ \E r \in InfoReqs : info'[r].calls > info[r].calls
    \/ \E j \in Jobs : hist'[j].inproc > hist[j].inproc \/ hist'[j].ext > hist[j].ext

\* C33: the failure counter of a url grows by one with every failed job of
\* either path
C33_EveryFailureCounts ==
    [][\A u \in Urls :
          FailureStep(u) => failed_attempts'[u] = failed_attempts[u] + 1]_vars

\* C33: the failure counter of a url changes only with the end of a job of
\* either path, to 0 only with a successful one, and with nothing else, the
\* passing of time included; once it is above 5 while no job for the url is
\* under way, no step changes it, starts a job for the url or calls the
\* engine
C33_LockoutPermanent ==
    [][\A u \in Urls :
          /\ failed_attempts'[u] # failed_attempts[u]
             => IF SuccessStep(u) THEN failed_attempts'[u] = 0 ELSE FailureStep(u)
          /\ (failed_attempts[u] > 5 /\ NoneInFlight(u))
             => /\ failed_attempts'[u] = failed_attempts[u]
                /\ NoneInFlight(u)'
                /\ ~EngineCalled]_vars

\* the counter of a url is above 5, no job is under way, and a metadata
\* request and a download request for the url have been rejected for it
C33_Witness ==
    \E u \in Urls :
        /\ failed_attempts[u] > 5 /\ NoneInFlight(u)
        /\ \E r \in InfoReqs : info[r].url = u /\ info[r].answer.kind = "failed_lockout"
        /\ \E j \in Jobs : resp[j].kind = "failed_lockout"

(* ------------------------- the job's artifact ------------------------- *)
\* the step marks job j 'completed'
Completes(j) == ~Completed(j) /\ Completed(j)'

\* the file the record of job j names is a finished one of more than
\* 1000 bytes
FinishedArtifact(j) ==
    LET n == recA[j].file_path
    IN  /\ n \in FileNames /\ ~IsPartial(n)
        /\ Exists(files[j][n])
        /\ (files[j][n].gib > 0 \/ files[j][n].size > MIN_FILE_SIZE)

\* C34: a job is marked 'completed' only with a finished file of more
\* than 1000 bytes as its artifact, after an in-process attempt as well as
\* after the external command
C34_CompletedFinished ==
    [][\A j \in Jobs : Completes(j) => FinishedArtifact(j)']_vars

\* C34, the in-process attempts alone: an attempt marks the job 'completed'
\* only with a finished file of more than 1000 bytes
C34_AttemptsFinished ==
    [][\A j \in Jobs : (pc[j] = "wait" /\ Completes(j)) => FinishedArtifact(j)']_vars

\* the attempts left a .part file and a file of TinySize bytes behind and
\* none of the six took either as the artifact
C34_AttemptsWitness ==
    \E j \in Jobs :
        /\ pc[j] = "fallback" /\ ~Completed(j)
        /\ Exists(files[j]["media.part"])
        /\ Exists(files[j]["media"])

(* ------------------------ progress and status ------------------------- *)
\* the record has a 'progress' key (the error dict of line 704 has none
\* until a hook writes one into it)
HasProgress(d) == d.progress # -1

\* progress and status of a record agree
ProgressAgrees(d) ==
    /\ d.progress \in 0 .. 100
    /\ d.status \in {"initializing", "downloading"} => d.progress <= 99
    /\ d.progress = 100 <=> d.status = "completed"

\* C35: in every reachable state every record of the registry that has a
\* progress field has a progress between 0 and 100, at most 99 while its
\* status is 'initializing' or 'downloading', and 100 exactly when its
\* status is 'completed'
C35_ProgressAgrees ==
    \A j \in Jobs :
        /\ (download_status[j] = "A" /\ HasProgress(recA[j])) => ProgressAgrees(recA[j])
        /\ (download_status[j] = "B" /\ HasProgress(recB[j])) => ProgressAgrees(recB[j])

====
